---- MODULE Spec2Model ----
(***************************************************************************)
(* Model of the scan orchestration engine: the checkpoint store            *)
(* (src/checkpoint.py) and the job scheduler (src/scan_manager.py).        *)
(*                                                                         *)
(* Two specifications share the definitions of the store operations:       *)
(*   SpecStore  a single caller applies the store API in sequence;         *)
(*   Spec       process_csv is run twice over one CSV, draining it through *)
(*              a pool of workers that run process_single_job; the process *)
(*              may crash inside a run and be started again.               *)
(***************************************************************************)
EXTENDS Integers, Sequences, FiniteSets, TLC

\* ------------------------------------------------------------------ bounds
MaxOps == 4              \* store API calls made by the caller of SpecStore
MaxRows == 2             \* rows of the input CSV
MaxJobs == 2             \* jobs created by start_scan
MaxTokens == 3           \* tokens of the pool: 0..MaxTokens
MaxTime == 1             \* the forge client's clock runs from 0 to MaxTime
MaxCalls == 2            \* _request calls made
MaxCommits == 4          \* commits of the forge's history: 1..MaxCommits
MaxWait == 3             \* WAIT_FOR_CE_TIMEOUT: 0..MaxWait
MaxPoll == 2             \* WAIT_FOR_CE_POLL: 1..MaxPoll
MaxMeasures == 2         \* measures the server returns for one project

\* ------------------------------------------------------------------ configuration
CONCURRENT_SCANS == 2    \* workers of the pool (environment variable)
BATCH_SIZE == 2          \* rows per batch (environment variable)

\* ------------------------------------------------------------------ values
NULL == "<NULL>"         \* SQL NULL / Python None
NaN == "<NaN>"           \* float('nan'): what pandas yields for an empty cell.
                         \* It is truthy in Python and is bound as NULL by sqlite3.

SHAs == {"s1", "s2"}

PENDING == "PENDING"
PROCESSED == "PROCESSED"
FAILED == "FAILED"
Terminal == {PROCESSED, FAILED}

\* metadata triples passed to the store API: (repo_name, project_key, repo_url)
Meta(rn, pk, ru) == [repo_name |-> rn, project_key |-> pk, repo_url |-> ru]
NoMeta == Meta(NULL, NULL, NULL)
MetaInputs == {NoMeta, Meta("a", "a_k", "a_u"), Meta("b", NULL, "b_u")}

\* error texts handed to mark_failed by the callers of SpecStore
ErrorInputs == {"Scanner command failed"}

\* ------------------------------------------------------------------ store
\* The scans table: a function from the commit_sha values that have a row
\* (commit_sha is the PRIMARY KEY) to the other columns of the row.
EmptyStore == [s \in {} |-> NULL]

CoalesceOverwrites(a, b) == a
COALESCE(a, b) == IF a # NULL THEN a ELSE b

\* SELECT status FROM scans WHERE commit_sha = ?  (fetchone: None if no row)
SelectStatus(store, sha) ==
    IF sha \in DOMAIN store THEN store[sha].status ELSE NULL

\* INSERT INTO scans (...) VALUES (?, 'PENDING', ?, ?, ?, ?).  A NaN key is
\* stored as NULL: the row is counted in null_rows and is no row of `store`.
InsertPending(store, sha, meta, now) ==
    IF sha = NaN THEN store
    ELSE store @@ (sha :> [status |-> PENDING,
                           error_msg |-> NULL,
                           repo_name |-> meta.repo_name,
                           project_key |-> meta.project_key,
                           repo_url |-> meta.repo_url,
                           updated_at |-> now])

\* UPDATE scans SET updated_at = ?, <meta> = COALESCE(?, <meta>) WHERE commit_sha = ?
ResumeNoRefresh(store, sha, meta, now) == store
RefreshPending(store, sha, meta, now) ==
    IF sha \in DOMAIN store
    THEN [store EXCEPT ![sha] =
            [@ EXCEPT !.updated_at = now,
                      !.repo_name = COALESCE(meta.repo_name, @),
                      !.project_key = COALESCE(meta.project_key, @),
                      !.repo_url = COALESCE(meta.repo_url, @)]]
    ELSE store

\* try_claim_commit after its SELECT: the branch taken on the observed status.
\*   "terminal"  return False (already PROCESSED or FAILED)
\*   "resume"    go on to the UPDATE of the PENDING row
\*   "insert"    go on to the INSERT of a new row
ClaimBranchFailedResumable(existing) ==
    IF existing = PROCESSED THEN "terminal"
    ELSE IF existing # NULL THEN "resume"
    ELSE "insert"
ClaimBranch(existing) ==
    IF existing \in {PROCESSED, FAILED} THEN "terminal"
    ELSE IF existing # NULL THEN "resume"
    ELSE "insert"

\* try_claim_commit's write on the branch chosen after the SELECT, and the
\* outcome of the call.  err: the statement raised (any exception but
\* IntegrityError); the transaction is rolled back.  Outcomes:
\*   "claimed-new"       INSERT done, return True
\*   "resumed-pending"   UPDATE done, "Resuming PENDING commit" logged, return True
\*   "already-terminal"  return False without a write
\*   "integrity"         INSERT hit the primary key, return False
\*   "error"             exception logged, return False
ClaimWrite(store, sha, branch, meta, now, err) ==
    IF err THEN [store |-> store, outcome |-> "error"]
    ELSE IF branch = "terminal" THEN [store |-> store, outcome |-> "already-terminal"]
    ELSE IF branch = "resume"
         THEN [store |-> RefreshPending(store, sha, meta, now),
               outcome |-> "resumed-pending"]
    ELSE IF sha \in DOMAIN store THEN [store |-> store, outcome |-> "integrity"]
    ELSE [store |-> InsertPending(store, sha, meta, now), outcome |-> "claimed-new"]

\* the bool try_claim_commit returns
ClaimReturn(outcome) == outcome \in {"claimed-new", "resumed-pending"}

\* try_claim_commit run by a caller that nobody interleaves with
TryClaimCommit(store, sha, meta, now, err) ==
    ClaimWrite(store, sha, ClaimBranch(SelectStatus(store, sha)), meta, now, err)

\* _update_status: UPDATE scans SET status, error_msg, updated_at, COALESCE(meta)
\* WHERE commit_sha = ?; an exception is logged and swallowed.
UpdateStatusDropsError(store, sha, status, error, meta, now, err) ==
    IF err \/ sha \notin DOMAIN store THEN store
    ELSE [store EXCEPT ![sha] =
            [@ EXCEPT !.status = status,
                      !.error_msg = NULL,
                      !.updated_at = now,
                      !.repo_name = COALESCE(meta.repo_name, @),
                      !.project_key = COALESCE(meta.project_key, @),
                      !.repo_url = COALESCE(meta.repo_url, @)]]
UpdateStatus(store, sha, status, error, meta, now, err) ==
    IF err \/ sha \notin DOMAIN store THEN store
    ELSE [store EXCEPT ![sha] =
            [@ EXCEPT !.status = status,
                      !.error_msg = error,
                      !.updated_at = now,
                      !.repo_name = COALESCE(meta.repo_name, @),
                      !.project_key = COALESCE(meta.project_key, @),
                      !.repo_url = COALESCE(meta.repo_url, @)]]

MarkProcessed(store, sha, meta, now, err) ==
    UpdateStatus(store, sha, PROCESSED, NULL, meta, now, err)

MarkFailed(store, sha, error, meta, now, err) ==
    UpdateStatus(store, sha, FAILED, error, meta, now, err)

\* reset_pending_jobs: DELETE FROM scans WHERE status = 'PENDING'
ResetPendingJobs(store, err) ==
    IF err THEN store
    ELSE [s \in {x \in DOMAIN store : store[x].status # PENDING} |-> store[s]]

\* ------------------------------------------------------------------ input rows
\* A CSV row: the recognised columns; NULL where the column is absent.
Row(gh, url, sha, trig, pk) ==
    [gh_project_name |-> gh, repo_url |-> url, commit_sha |-> sha,
     git_trigger_commit |-> trig, project_key |-> pk]

GithubUrl == "https://github.com/o/r1.git"
PlainUrl == "https://x/r2.git"

\* The rows of one CSV share its header.  Three headers:
\*   repo_url, commit_sha
\*   gh_project_name, git_trigger_commit, project_key
\*   commit_sha                      (no repo column: every row is skipped)
\*   repo_url, commit_sha            with the commit_sha cell left empty
UrlRows == {Row(NULL, PlainUrl, "s1", NULL, NULL),
            Row(NULL, GithubUrl, "s2", NULL, NULL)}
GhRows == {Row("o/r1", NULL, NULL, "s1", "k")}
NoRepoRows == {Row(NULL, NULL, "s2", NULL, NULL)}
EmptyShaRows == {Row(NULL, PlainUrl, NaN, NULL, NULL)}
\*   gh_project_name, git_trigger_commit, project_key   with one project_key
\*   for the commits of a project
KeyRows == {Row("o/r1", NULL, NULL, "s1", "k"), Row("o/r1", NULL, NULL, "s2", "k")}

RECURSIVE SeqsUpTo(_, _)
SeqsUpTo(S, n) ==
    IF n = 0 THEN {<<>>}
    ELSE LET shorter == SeqsUpTo(S, n - 1)
         IN  shorter \cup {Append(q, r) : q \in {t \in shorter : Len(t) = n - 1}, r \in S}

CSVs ==
    (SeqsUpTo(UrlRows, MaxRows) \cup SeqsUpTo(GhRows, MaxRows)
        \cup SeqsUpTo(NoRepoRows, MaxRows) \cup SeqsUpTo(EmptyShaRows, MaxRows)) \ {<<>>}

\* row.get("git_trigger_commit") or row.get("commit_sha")
RowSha(row) == COALESCE(row.git_trigger_commit, row.commit_sha)

\* repo_url, synthesised from gh_project_name when repo_url is absent
RowUrl(row) ==
    IF row.gh_project_name # NULL /\ row.repo_url = NULL
    THEN "https://github.com/" \o row.gh_project_name \o ".git"
    ELSE row.repo_url

\* if not repo_url or not commit_sha: skip the row
RowValid(row) == RowUrl(row) # NULL /\ RowSha(row) # NULL

\* repo_url.split("github.com/")[-1].replace(".git", "") if "github.com" in repo_url
RepoSlug(url) == IF url = GithubUrl THEN "o/r1" ELSE NULL

\* owner, repo_name = repo_slug.split("/", 1)
Owner(url) == IF RepoSlug(url) # NULL THEN "o" ELSE NULL

\* repo_url.split("/")[-1].replace(".git", ""), or the slug's second part
RepoName(url) == IF url = GithubUrl THEN "r1" ELSE "r2"

RepoNames == {"r1", "r2"}

\* f"{x}"
Format(x) == IF x = NaN THEN "nan" ELSE x

\* row.get("project_key"), else <owner>_<repo>_<sha>, else <repo>_<sha>
ProjectKey(row) ==
    IF row.project_key # NULL THEN row.project_key
    ELSE IF Owner(RowUrl(row)) # NULL
         THEN Owner(RowUrl(row)) \o "_" \o RepoName(RowUrl(row)) \o "_" \o Format(RowSha(row))
         ELSE RepoName(RowUrl(row)) \o "_" \o Format(RowSha(row))

\* the metadata process_single_job hands to the store
JobMeta(row) == Meta(RepoName(RowUrl(row)), ProjectKey(row), RowUrl(row))

\* ------------------------------------------------------------------ errors
\* str(e) of the exceptions raised between the claim and the scan
PrepareErrors == {"Master repo not prepared", "Command 'git worktree add' returned non-zero exit status"}
CheckoutErrors == {"Commit not found and cannot be replayed",
                   "Cannot replay commit with zero or multiple parents"}
ScannerFailed == "Scanner command failed"

\* ------------------------------------------------------------------ state
Workers == 1..CONCURRENT_SCANS

\* the CSVs of the specification of batches: each commit is listed once
NoRowTwice(q) == \A i \in 1..Len(q), j \in 1..Len(q) : i # j => q[i] # q[j]
BatchCSVs ==
    ({q \in SeqsUpTo(UrlRows, MaxRows) \cup SeqsUpTo(KeyRows, MaxRows) : NoRowTwice(q)}
        \cup SeqsUpTo(NoRepoRows, 1)) \ {<<>>}

VARIABLES
    scans,      \* the scans table
    time,       \* the clock read by time.time(); it advances between the
                \* API calls of SpecStore and between the runs of Spec
    ops,        \* SpecStore: number of API calls made
    last,       \* SpecStore: the last API call, its inputs and its outcome
    csv,        \* the input CSV
    phase,      \* "idle" | "running" (inside process_csv) | "down" (crashed)
    run,        \* process_csv invocations started (Spec makes two)
    crashes,    \* process crashes
    submitted,  \* rows of the CSV submitted to the pool in this run
    taken,      \* rows of the CSV taken by a worker in this run
    mirror,     \* repo names whose mirror exists under repos/
    pc,         \* worker -> position in process_single_job
    job,        \* worker -> index of its row in the CSV (0: none yet)
    branch,     \* worker -> branch chosen after the SELECT of try_claim_commit
    claim,      \* worker -> outcome of its try_claim_commit
    fail,       \* worker -> "ok" or the error text to record
    ret,        \* worker -> what process_single_job returned for its last row
    scanCount,  \* history: sha -> scanner invocations
    scanOk,     \* history: SHAs for which a scanner invocation exited 0
    null_rows,  \* rows of the scans table whose commit_sha is NULL (all PENDING)
    temp,       \* project keys whose workspace temp/<project_key> exists
    workspace_path, \* worker -> the workspace it created (None before)
    batch_size, \* the batch_size argument of process_csv
    clone_failed, \* history: rows of this run whose repository had no mirror
                \* when the pre-warm of their batch ended (the clone failed)
    uploads_db, \* the uploads table: upload id -> row
    uploads,    \* webapp: the in-memory uploads dict, upload id -> entry; of an
                \* entry the model keeps "status", the one field the code reads back
    jobs,       \* webapp: the in-memory job store, job id -> job
    job_queue,  \* webapp: the deque of (job_id, upload_id)
    web,        \* webapp process: "up" | "down"
    jw,         \* job worker thread: position, job, upload, text of the exception
    h,          \* request handler on the event loop: position, request, locals
    njobs,      \* job ids handed out so far (uuid4 never repeats one); job
                \* n is the n-th job start_scan created
    created,    \* upload ids handed out so far
    webFault,   \* history: a statement on the uploads table has raised
    repo_lock,  \* repo name -> the thread inside `with repo_lock` (NoThread: free)
    lk,         \* thread -> where it is among the git operations, and on which repo
    tokens,     \* GitHubTokenPool.tokens: the list of tokens (token i is i)
    cooldowns,  \* GitHubTokenPool._cooldowns: token -> epoch until which it cools
    cursor,     \* GitHubTokenPool._cursor
    clock,      \* time.time() of the forge client
    rq,         \* thread -> its _request call: position, locals, outcome
    ncalls,     \* _request calls started
    other_resets, \* history: some 403 answer carried a reset other than LateReset
    commit_exists, \* the commits that exist in the local repository
    payloads,   \* history: the parents get_commit has reported, by commit
    replay,     \* the build_replay_plan / apply_replay_plan call
    sonar,      \* the run_sonar_scan call of one job and the Config it reads
    exporter,   \* main of the metrics exporter: its locals and the files it writes
    checkout    \* the checkout_commit call of one job

storeVars == <<scans, time>>
apiVars == <<ops, last>>
poolVars == <<csv, phase, run, crashes, submitted, taken, mirror, batch_size,
             clone_failed>>
batchVars == <<batch_size, clone_failed>>
workerVars == <<pc, job, branch, claim, fail, ret>>
histVars == <<scanCount, scanOk>>
webVars == <<uploads_db, uploads, jobs, job_queue, web, jw, h, njobs,
            created, webFault>>
wsVars == <<null_rows, temp, workspace_path>>
lockVars == <<repo_lock, lk>>
forgeVars == <<tokens, cooldowns, cursor, clock, rq, ncalls, other_resets>>
replayVars == <<commit_exists, payloads, replay>>
toolVars == <<sonar, exporter, checkout>>
libVars == <<lockVars, forgeVars, replayVars, toolVars>>
engineVars == <<scans, time, ops, last, csv, phase, run, crashes, submitted, taken,
               mirror, pc, job, branch, claim, fail, ret, scanCount, scanOk,
               null_rows, temp, workspace_path, batch_size, clone_failed>>
vars == <<scans, time, ops, last, csv, phase, run, crashes, submitted, taken,
          mirror, pc, job, branch, claim, fail, ret, scanCount, scanOk,
          null_rows, temp, workspace_path, batch_size, clone_failed,
          uploads_db, uploads, jobs, job_queue, web, jw, h, njobs,
          created, webFault, repo_lock, lk,
          tokens, cooldowns, cursor, clock, rq, ncalls, other_resets,
          commit_exists, payloads, replay, sonar, exporter, checkout>>

\* ------------------------------------------------------------------ webapp values
Uploads == {"u1", "u2"}

NoJobId == 0             \* job_id NULL / None

\* a row of the uploads table
UploadRow(st, j, e) == [status |-> st, job_id |-> j, error_msg |-> e]

\* an entry of the in-memory uploads dict
UploadEntry(st) == [status |-> st]

EmptyUploads == [u \in {} |-> NULL]
EmptyJobs == [j \in {} |-> NULL]

JwWaiting == [pc |-> "wait", job_id |-> NoJobId, upload_id |-> NULL, exc |-> NULL]
HIdle == [pc |-> "idle", req |-> "none", upload_id |-> NULL, job_id |-> NoJobId,
          rest |-> <<>>]

\* the webapp module freshly imported over an empty uploads table
WebFresh ==
    /\ uploads_db = EmptyUploads
    /\ uploads = EmptyUploads
    /\ jobs = EmptyJobs
    /\ job_queue = <<>>
    /\ web = "up"
    /\ jw = JwWaiting
    /\ h = HIdle
    /\ njobs = 0
    /\ created = {}
    /\ webFault = FALSE

NoCall == [op |-> "none", sha |-> NULL, meta |-> NoMeta, error |-> NULL,
           err |-> FALSE, outcome |-> NULL]

JobRow(w) == csv[job[w]]
JobSha(w) == RowSha(JobRow(w))

\* ------------------------------------------------------------------ repository lock values
MainThread == 0          \* the thread that runs process_csv
NoThread == CONCURRENT_SCANS + 1
LockThreads == Workers \cup {MainThread}
LkIdle == [pc |-> "idle", repo |-> NULL]

LockFresh ==
    /\ repo_lock = [r \in RepoNames |-> NoThread]
    /\ lk = [t \in LockThreads |-> LkIdle]

\* ------------------------------------------------------------------ forge client values
ATTEMPTS == 3            \* for _ in range(3)
DEFAULT_COOLDOWN == 60   \* time.time() + 60.0
MIN_COOLDOWN == 1        \* time.time() + 1.0

NoToken == 0
NoReset == 0             \* X-RateLimit-Reset absent: int(..., 0)
EarlyReset == 1          \* a reset epoch the clock reaches
LateReset == MaxTime + 2 \* a reset epoch the clock never comes close to
Resets == {NoReset, EarlyReset, LateReset}

\* what a call ends with; `until` is retry_at, 0 where there is none
Outcome(kind, until) == [kind |-> kind, until |-> until]
NoOutcome == Outcome("none", 0)
AllTokensRateLimited(retry_at) == Outcome("AllTokensRateLimited", retry_at)
GitHubAPIError500 == Outcome("GitHubAPIError: Failed to connect to GitHub API after retries", 0)
NoTokensConfigured == Outcome("RuntimeError: No GitHub tokens configured.", 0)
Response == Outcome("response", 0)

RqIdle == [pc |-> "idle", now |-> 0, token |-> NoToken, attempts |-> 0, only_late |-> TRUE,
           result |-> NoOutcome, failed_with |-> NoOutcome]

\* GitHubTokenPool.__init__ over a list of n distinct tokens
PoolOf(n) ==
    /\ tokens = [i \in 1..n |-> i]
    /\ cooldowns = [i \in 1..n |-> 0]
    /\ cursor = 0

ForgeFresh ==
    /\ clock = 0
    /\ rq = [t \in Workers |-> RqIdle]
    /\ ncalls = 0
    /\ other_resets = FALSE

\* ------------------------------------------------------------------ replay values
ForgeCommits == 1..MaxCommits
NoSha == 0               \* parents[0].get("sha") gives nothing

ReplayError(kind, commit_sha, reason) ==
    [kind |-> kind, commit_sha |-> commit_sha, reason |-> reason]
NoError == ReplayError("none", NoSha, "")
MissingForkCommitError(commit_sha, reason) ==
    ReplayError("MissingForkCommitError", commit_sha, reason)

ReplayPlan(base_sha, commits) == [base_sha |-> base_sha, commits |-> commits]
NoPlan == ReplayPlan(NoSha, <<>>)

NoPayloads == [c \in {} |-> <<>>]

ReplayCall(at, target_sha, max_depth) ==
    [pc |-> at, target_sha |-> target_sha, max_depth |-> max_depth,
     current |-> NoSha, depth |-> 0, visited |-> {}, missing_commits |-> <<>>,
     gets |-> 0, error |-> NoError, plan |-> NoPlan, applied |-> <<>>]

\* no replay is called
ReplayFresh ==
    /\ commit_exists = {}
    /\ payloads = NoPayloads
    /\ replay = ReplayCall("idle", NoSha, 0)

\* ------------------------------------------------------------------ scanner values
\* what one poll of api/ce/component gives: a 401, an exception (connection
\* error, another HTTP error, a body that is no JSON), no current task and an
\* empty queue, no current task and a queue, or the status of the current task
CeAnswers == {"401", "error", "idle", "queued", "PENDING", "IN_PROGRESS",
              "SUCCESS", "FAILED", "CANCELED"}
Latencies == {0, 1}      \* the time one poll takes

SonarCall(at, wait_for_ce, configured, timeout, poll) ==
    [pc |-> at, WAIT_FOR_CE |-> wait_for_ce, configured |-> configured,
     WAIT_FOR_CE_TIMEOUT |-> timeout, WAIT_FOR_CE_POLL |-> poll,
     exit |-> 0, now |-> 0, deadline |-> 0, polls |-> 0, polled_at |-> 0,
     answer |-> "none", stop |-> "none", success |-> FALSE, marked |-> NULL]

\* no scan is running
SonarFresh == sonar = SonarCall("idle", FALSE, FALSE, 0, 1)

\* ------------------------------------------------------------------ exporter values
ALL_METRIC_KEYS == <<"ncloc", "bugs">>
header == <<"repo", "commit">> \o ALL_METRIC_KEYS
ProjectKeys == {"a_1", "b_2"}

\* a measure of api/measures/component: its "metric" (NULL: none), its "value"
\* (NULL: none) and the values of its "periods" (NULL: a period without one)
MetricKeys == {NULL, "ncloc", "new_bugs"}
Values == {NULL, "", " ", "7"}
Periods == {<<>>, <<NULL>>, <<"3">>}
Measures == [metric : MetricKeys, value : Values, periods : Periods]
MeasureLists == UNION {[1..n -> Measures] : n \in 0..MaxMeasures}

\* str.strip() on the values above
Strip(value) == IF value = " " THEN "" ELSE value

\* value = measure.get("value"); if value is None and measure.get("periods"):
\* value = measure["periods"][0].get("value")
ValueOf(measure) ==
    IF measure.value = NULL /\ measure.periods # <<>>
    THEN measure.periods[1]
    ELSE measure.value

is_project_pending_unless_listed(measures) == measures = <<>>
is_project_pending(measures) ==
    \A i \in 1..Len(measures) :
        ~(ValueOf(measures[i]) # NULL /\ Strip(ValueOf(measures[i])) # "")

\* parse_component_key on the keys above: no part is a 40-digit SHA, so the
\* fallback splits at the last underscore
parse_component_key(component_key) ==
    IF component_key = "a_1" THEN <<"a", "1">> ELSE <<"b", "2">>

\* the loop of measures_to_row over measures[from..], on the row so far
RECURSIVE FillRow(_, _, _)
FillRow(row, measures, from) ==
    IF from > Len(measures) THEN row
    ELSE LET measure == measures[from]
             mk == measure.metric
             value == ValueOf(measure)
         IN  IF mk = NULL THEN FillRow(row, measures, from + 1)
             ELSE FillRow([k \in DOMAIN row \cup {mk} |->
                              IF k = mk THEN (IF value = NULL THEN "" ELSE value)
                              ELSE row[k]],
                          measures, from + 1)

measures_to_row(component_key, metrics, measures) ==
    FillRow([k \in {"repo", "commit"} \cup {metrics[i] : i \in 1..Len(metrics)} |->
                IF k = "repo" THEN parse_component_key(component_key)[1]
                ELSE IF k = "commit" THEN parse_component_key(component_key)[2]
                ELSE ""],
            measures, 1)

\* csv.DictWriter(fieldnames=header).writerow(row) raises ValueError for a
\* key of the row that is no field name
WriterRaises(row) == \E k \in DOMAIN row : \A i \in 1..Len(header) : header[i] # k

NoRow == [k \in {} |-> ""]
Export(at, jsonl, todo) ==
    [pc |-> at, jsonl_on |-> jsonl, todo |-> todo, key |-> NULL, measures |-> <<>>,
     raised |-> FALSE, is_pending |-> FALSE, row |-> NoRow, skipped |-> <<>>,
     csv |-> <<>>, jsonl |-> <<>>, done |-> <<>>,
     success |-> 0, failures |-> 0, skipped_pending |-> 0]
ExporterFresh == exporter = Export("idle", FALSE, {})

\* ------------------------------------------------------------------ checkout values
WorktreeHead == 0        \* the commit `git worktree add --detach ... HEAD` left
CheckoutCall(at, github, repo_slug) ==
    [pc |-> at, github |-> github, repo_slug |-> repo_slug,
     head |-> WorktreeHead, cleaned |-> FALSE, outcome |-> "none", error |-> NoError]
CheckoutFresh == checkout = CheckoutCall("idle", FALSE, FALSE)

ToolsFresh == SonarFresh /\ ExporterFresh /\ CheckoutFresh

\* ------------------------------------------------------------------ scheduler
Min(a, b) == IF a < b THEN a ELSE b

IdleWorkers == [w \in Workers |-> "idle"]
NoJobs == [w \in Workers |-> 0]
Nulls == [w \in Workers |-> NULL]

Init ==
    /\ scans = EmptyStore
    /\ time = 0
    /\ ops = 0
    /\ last = NoCall
    /\ csv \in CSVs
    /\ phase = "idle"
    /\ run = 0
    /\ crashes = 0
    /\ submitted = 0
    /\ taken = 0
    /\ mirror = {}
    /\ pc = IdleWorkers
    /\ job = NoJobs
    /\ branch = Nulls
    /\ claim = Nulls
    /\ fail = Nulls
    /\ ret = Nulls
    /\ scanCount = [s \in SHAs |-> 0]
    /\ scanOk = {}
    /\ null_rows = 0
    /\ temp = {}
    /\ workspace_path = Nulls
    /\ batch_size = BATCH_SIZE
    /\ clone_failed = {}
    /\ WebFresh
    /\ LockFresh
    /\ PoolOf(0)
    /\ ForgeFresh
    /\ ReplayFresh
    /\ ToolsFresh

\* MiniScanner.__init__: opens the checkpoint store; reset_pending_jobs is
\* commented out, so the rows are left as they are.
StartupResetsPending(store) == ResetPendingJobs(store, FALSE)
StartupStore(store) == store

\* process_csv is entered: a new pool, nothing submitted yet
StartRun ==
    /\ phase = "idle"
    /\ run < 2
    /\ phase' = "running"
    /\ run' = run + 1
    /\ submitted' = 0
    /\ taken' = 0
    /\ pc' = IdleWorkers
    /\ job' = NoJobs
    /\ branch' = Nulls
    /\ claim' = Nulls
    /\ fail' = Nulls
    /\ ret' = Nulls
    /\ time' = time + 1
    /\ workspace_path' = Nulls
    /\ clone_failed' = {}
    /\ UNCHANGED <<scans, apiVars, csv, crashes, mirror, histVars, null_rows, temp,
                   batch_size>>
    /\ UNCHANGED <<webVars, libVars>>

\* repos_to_prepare of the batch that starts after row `from`
BatchEnd(from) == Min(from + batch_size, Len(csv))
BatchRepos(from) ==
    {RepoName(RowUrl(csv[i])) : i \in {j \in (from + 1)..BatchEnd(from) : RowUrl(csv[j]) # NULL}}

\* One batch of process_csv: ensure_repo for each repo of the batch (a clone
\* may fail, which is logged), then every row of the batch is submitted.
ScheduleBatch ==
    /\ phase = "running"
    /\ submitted < Len(csv)
    /\ \E cloned \in SUBSET (BatchRepos(submitted) \ mirror) :
          mirror' = mirror \cup cloned
    /\ clone_failed' = clone_failed \cup
          {i \in (submitted + 1)..BatchEnd(submitted) :
              RowUrl(csv[i]) # NULL /\ RepoName(RowUrl(csv[i])) \notin mirror'}
    /\ submitted' = BatchEnd(submitted)
    /\ UNCHANGED batch_size
    /\ UNCHANGED <<storeVars, apiVars, csv, phase, run, crashes, taken,
                   workerVars, histVars>>
    /\ UNCHANGED wsVars
    /\ UNCHANGED <<webVars, libVars>>

\* process_csv returns: every row submitted and every future completed
FinishRun ==
    /\ phase = "running"
    /\ submitted = Len(csv)
    /\ taken = submitted
    /\ \A w \in Workers : pc[w] = "idle"
    /\ phase' = "idle"
    /\ UNCHANGED <<storeVars, apiVars, csv, run, crashes, submitted, taken,
                   mirror, workerVars, histVars>>
    /\ UNCHANGED wsVars
    /\ UNCHANGED batchVars
    /\ UNCHANGED <<webVars, libVars>>

\* the process dies inside process_csv: threads and pool are gone, the
\* store, the mirrors and the workspaces stay
Crash ==
    /\ phase = "running"
    /\ phase' = "down"
    /\ crashes' = crashes + 1
    /\ pc' = IdleWorkers
    /\ job' = NoJobs
    /\ branch' = Nulls
    /\ claim' = Nulls
    /\ fail' = Nulls
    /\ ret' = Nulls
    /\ workspace_path' = Nulls
    /\ UNCHANGED <<storeVars, apiVars, csv, run, submitted, taken, mirror, histVars,
                   null_rows, temp>>
    /\ UNCHANGED batchVars
    /\ UNCHANGED <<webVars, libVars>>

\* the process is started again: MiniScanner.__init__, which ends with
\* cleanup_stale_worktrees (every entry of temp/ is removed)
Restart ==
    /\ phase = "down"
    /\ phase' = "idle"
    /\ scans' = StartupStore(scans)
    /\ temp' = {}
    /\ UNCHANGED <<null_rows, workspace_path>>
    /\ UNCHANGED <<time, apiVars, csv, run, crashes, submitted, taken, mirror,
                   workerVars, histVars>>
    /\ UNCHANGED batchVars
    /\ UNCHANGED <<webVars, libVars>>

\* ------------------------------------------------------------------ process_single_job
\* The pool hands the next submitted row to an idle worker; the workers
\* are interchangeable, so it is the first idle one.
FirstIdle(w) == pc[w] = "idle" /\ \A v \in Workers : v < w => pc[v] # "idle"

\* a row without repo or sha is skipped (return False)
SkipRow(w) ==
    /\ phase = "running"
    /\ FirstIdle(w)
    /\ taken < submitted
    /\ ~RowValid(csv[taken + 1])
    /\ taken' = taken + 1
    /\ job' = [job EXCEPT ![w] = taken + 1]
    /\ claim' = [claim EXCEPT ![w] = NULL]
    /\ ret' = [ret EXCEPT ![w] = "False"]
    /\ UNCHANGED <<storeVars, apiVars, csv, phase, run, crashes, submitted,
                   mirror, pc, branch, fail, histVars>>
    /\ UNCHANGED wsVars
    /\ UNCHANGED batchVars
    /\ UNCHANGED <<webVars, libVars>>

TakeJob(w) ==
    /\ phase = "running"
    /\ FirstIdle(w)
    /\ taken < submitted
    /\ RowValid(csv[taken + 1])
    /\ taken' = taken + 1
    /\ job' = [job EXCEPT ![w] = taken + 1]
    /\ claim' = [claim EXCEPT ![w] = NULL]
    /\ ret' = [ret EXCEPT ![w] = NULL]
    /\ pc' = [pc EXCEPT ![w] = "claim"]
    /\ UNCHANGED <<storeVars, apiVars, csv, phase, run, crashes, submitted,
                   mirror, branch, fail, histVars>>
    /\ UNCHANGED wsVars
    /\ UNCHANGED batchVars
    /\ UNCHANGED <<webVars, libVars>>

\* process_single_job returns True after a try_claim_commit that returned False
SkipClaimed(w, outcome) ==
    /\ claim' = [claim EXCEPT ![w] = outcome]
    /\ ret' = [ret EXCEPT ![w] = "True"]
    /\ pc' = [pc EXCEPT ![w] = "idle"]
    /\ branch' = [branch EXCEPT ![w] = NULL]

\* try_claim_commit, first statement: the SELECT (outside any transaction)
ClaimSelect(w) ==
    /\ pc[w] = "claim"
    /\ \E err \in BOOLEAN :
          LET b == ClaimBranch(SelectStatus(scans, JobSha(w)))
          IN  IF err THEN SkipClaimed(w, "error")
              ELSE IF b = "terminal" THEN SkipClaimed(w, "already-terminal")
              ELSE /\ branch' = [branch EXCEPT ![w] = b]
                   /\ pc' = [pc EXCEPT ![w] = "claim_write"]
                   /\ UNCHANGED <<claim, ret>>
    /\ UNCHANGED <<storeVars, apiVars, poolVars, job, fail, histVars>>
    /\ UNCHANGED wsVars
    /\ UNCHANGED <<webVars, libVars>>

\* try_claim_commit, second statement: the UPDATE or the INSERT, committed
ClaimWriteStep(w) ==
    /\ pc[w] = "claim_write"
    /\ \E err \in BOOLEAN :
          LET r == ClaimWrite(scans, JobSha(w), branch[w], JobMeta(JobRow(w)), time, err)
          IN  /\ scans' = r.store
              /\ IF ClaimReturn(r.outcome)
                 THEN /\ claim' = [claim EXCEPT ![w] = r.outcome]
                      /\ pc' = [pc EXCEPT ![w] = "prepare"]
                      /\ branch' = [branch EXCEPT ![w] = NULL]
                      /\ UNCHANGED ret
                 ELSE SkipClaimed(w, r.outcome)
              /\ null_rows' = IF r.outcome = "claimed-new" /\ JobSha(w) = NaN
                              THEN null_rows + 1 ELSE null_rows
    /\ UNCHANGED <<time, apiVars, poolVars, job, fail, histVars, temp, workspace_path>>
    /\ UNCHANGED <<webVars, libVars>>

\* an exception inside the try block: its text goes to mark_failed
Raise(w, text) ==
    /\ fail' = [fail EXCEPT ![w] = text]
    /\ pc' = [pc EXCEPT ![w] = "mark"]

\* master_repo_path.exists()
MasterRepoAssumed(repo_name, mirrors) == TRUE
MasterRepoExists(repo_name, mirrors) == repo_name \in mirrors

\* prepare_workspace: needs the mirror; under the repo lock a workspace
\* found at temp/<project_key> is removed, then git worktree add creates it
\* or fails; workspace_path is assigned when prepare_workspace returns
PrepareWorkspace(w) ==
    /\ pc[w] = "prepare"
    /\ LET pk == ProjectKey(JobRow(w))
       IN  IF ~MasterRepoExists(RepoName(RowUrl(JobRow(w))), mirror)
           THEN /\ Raise(w, "Master repo not prepared")
                /\ UNCHANGED <<temp, workspace_path>>
           ELSE \/ /\ Raise(w, "Command 'git worktree add' returned non-zero exit status")
                   /\ temp' = temp \ {pk}
                   /\ UNCHANGED workspace_path
                \/ /\ pc' = [pc EXCEPT ![w] = "checkout"]
                   /\ temp' = temp \cup {pk}
                   /\ workspace_path' = [workspace_path EXCEPT ![w] = pk]
                   /\ UNCHANGED fail
    /\ UNCHANGED <<storeVars, apiVars, poolVars, job, branch, claim, ret, histVars, null_rows>>
    /\ UNCHANGED <<webVars, libVars>>

\* checkout_commit: checks the commit out, replays it, or raises; it
\* raises when the workspace is gone or the commit is "nan"
CheckoutCommit(w) ==
    /\ pc[w] = "checkout"
    /\ \/ \E text \in CheckoutErrors : Raise(w, text)
       \/ /\ workspace_path[w] \in temp
          /\ JobSha(w) # NaN
          /\ pc' = [pc EXCEPT ![w] = "scan"]
          /\ UNCHANGED fail
    /\ UNCHANGED <<storeVars, apiVars, poolVars, job, branch, claim, ret, histVars, wsVars>>
    /\ UNCHANGED <<webVars, libVars>>

\* run_sonar_scan returns True iff the scanner subprocess exits 0
ScanSuccessAlways(exit) == TRUE
ScanSuccess(exit) == exit = 0

\* the scanner runs in the workspace; when the workspace is gone the
\* subprocess cannot be started and run_sonar_scan returns False
RunSonarScan(w) ==
    /\ pc[w] = "scan"
    /\ IF workspace_path[w] \in temp
       THEN /\ \E exit \in {0, 1} :
                  /\ scanOk' = IF exit = 0 THEN scanOk \cup {JobSha(w)} ELSE scanOk
                  /\ fail' = [fail EXCEPT ![w] =
                                 IF ScanSuccess(exit) THEN "ok" ELSE ScannerFailed]
            /\ scanCount' = [scanCount EXCEPT ![JobSha(w)] = @ + 1]
       ELSE /\ fail' = [fail EXCEPT ![w] = ScannerFailed]
            /\ UNCHANGED <<scanCount, scanOk>>
    /\ pc' = [pc EXCEPT ![w] = "mark"]
    /\ UNCHANGED <<storeVars, apiVars, poolVars, job, branch, claim, ret, wsVars>>
    /\ UNCHANGED <<webVars, libVars>>

\* the finally clause of process_single_job: a workspace that was created
\* and still exists is unregistered and deleted
CleanupOnSuccessOnly(dirs, path, outcome) ==
    IF path # NULL /\ outcome = "ok" THEN dirs \ {path} ELSE dirs
CleanupWorkspace(dirs, path, outcome) ==
    IF path # NULL THEN dirs \ {path} ELSE dirs

\* mark_processed on success, mark_failed otherwise; then the finally
\* clause, and the job returns
MarkDone(w) ==
    /\ pc[w] = "mark"
    /\ \E err \in BOOLEAN :
          scans' = IF fail[w] = "ok"
                   THEN MarkProcessed(scans, JobSha(w), JobMeta(JobRow(w)), time, err)
                   ELSE MarkFailed(scans, JobSha(w), fail[w], JobMeta(JobRow(w)), time, err)
    /\ ret' = [ret EXCEPT ![w] = IF fail[w] = "ok" THEN "True" ELSE "False"]
    /\ temp' = CleanupWorkspace(temp, workspace_path[w], fail[w])
    /\ workspace_path' = [workspace_path EXCEPT ![w] = NULL]
    /\ fail' = [fail EXCEPT ![w] = NULL]
    /\ pc' = [pc EXCEPT ![w] = "idle"]
    /\ UNCHANGED <<time, apiVars, poolVars, job, branch, claim, histVars, null_rows>>
    /\ UNCHANGED <<webVars, libVars>>

Next ==
    \/ StartRun
    \/ ScheduleBatch
    \/ FinishRun
    \/ Crash
    \/ Restart
    \/ \E w \in Workers : SkipRow(w)
    \/ \E w \in Workers : TakeJob(w)
    \/ \E w \in Workers : ClaimSelect(w)
    \/ \E w \in Workers : ClaimWriteStep(w)
    \/ \E w \in Workers : PrepareWorkspace(w)
    \/ \E w \in Workers : CheckoutCommit(w)
    \/ \E w \in Workers : RunSonarScan(w)
    \/ \E w \in Workers : MarkDone(w)

Spec == Init /\ [][Next]_vars

\* ------------------------------------------------------------------ two claims of one SHA
\* Two pool threads have each taken a row of the same SHA, which has no row in
\* the store, and are about to call try_claim_commit: the state of process_csv
\* after its first batch was scheduled and both jobs were started.
InitRace ==
    /\ scans = EmptyStore
    /\ time = 1
    /\ ops = 0
    /\ last = NoCall
    /\ csv \in {q \in CSVs : /\ Len(q) = 2
                             /\ RowValid(q[1]) /\ RowValid(q[2])
                             /\ RowSha(q[1]) \in SHAs
                             /\ RowSha(q[1]) = RowSha(q[2])}
    /\ phase = "running"
    /\ run = 1
    /\ crashes = 0
    /\ submitted = 2
    /\ taken = 2
    /\ batch_size = BATCH_SIZE
    /\ mirror \in SUBSET BatchRepos(0)
    /\ clone_failed = {i \in 1..2 : RowUrl(csv[i]) # NULL /\ RepoName(RowUrl(csv[i])) \notin mirror}
    /\ pc = [w \in Workers |-> "claim"]
    /\ job = [w \in Workers |-> w]
    /\ branch = Nulls
    /\ claim = Nulls
    /\ fail = Nulls
    /\ ret = Nulls
    /\ scanCount = [s \in SHAs |-> 0]
    /\ scanOk = {}
    /\ null_rows = 0
    /\ temp = {}
    /\ workspace_path = Nulls
    /\ WebFresh
    /\ LockFresh
    /\ PoolOf(0)
    /\ ForgeFresh
    /\ ReplayFresh
    /\ ToolsFresh

NextRace ==
    \/ \E w \in Workers : ClaimSelect(w)
    \/ \E w \in Workers : ClaimWriteStep(w)
    \/ \E w \in Workers : PrepareWorkspace(w)
    \/ \E w \in Workers : CheckoutCommit(w)
    \/ \E w \in Workers : RunSonarScan(w)
    \/ \E w \in Workers : MarkDone(w)
    \/ FinishRun

SpecRace == InitRace /\ [][NextRace]_vars

\* ------------------------------------------------------------------ batches
\* process_csv called with a batch_size of 1 up to the configured one, on
\* CSVs whose rows may share a project_key
InitBatch ==
    /\ scans = EmptyStore
    /\ time = 0
    /\ ops = 0
    /\ last = NoCall
    /\ csv \in BatchCSVs
    /\ phase = "idle"
    /\ run = 0
    /\ crashes = 0
    /\ submitted = 0
    /\ taken = 0
    /\ mirror = {}
    /\ pc = IdleWorkers
    /\ job = NoJobs
    /\ branch = Nulls
    /\ claim = Nulls
    /\ fail = Nulls
    /\ ret = Nulls
    /\ scanCount = [s \in SHAs |-> 0]
    /\ scanOk = {}
    /\ null_rows = 0
    /\ temp = {}
    /\ workspace_path = Nulls
    /\ batch_size \in 1..BATCH_SIZE
    /\ clone_failed = {}
    /\ WebFresh
    /\ LockFresh
    /\ PoolOf(0)
    /\ ForgeFresh
    /\ ReplayFresh
    /\ ToolsFresh

SpecBatch == InitBatch /\ [][Next]_vars

\* ------------------------------------------------------------------ repository locks
\* The git operations of ensure_repo (main thread, batch pre-warm) and of
\* process_single_job (pool workers), at the granularity of the repo lock:
\* a position names the operations in progress there.
\*   worker:  prepare -> worktree_add -> checkout -> scan -> cleanup
\*            -> worktree_remove -> rmtree
\*   main:    ensure -> clone_or_fetch
LockedPositions == {"worktree_add", "worktree_remove", "clone_or_fetch"}
WritingPositions == LockedPositions \cup {"checkout", "rmtree"}

restOfLock == <<engineVars, webVars, forgeVars, replayVars, toolVars>>

\* FileLock.acquire: blocks while another thread holds the repo's lock
LockFree(r) == repo_lock[r] = NoThread
LockAcquire(t, r, next) ==
    /\ LockFree(r)
    /\ repo_lock' = [repo_lock EXCEPT ![r] = t]
    /\ lk' = [lk EXCEPT ![t].pc = next]

\* leaving the `with repo_lock` block
LockRelease(t, next) ==
    /\ repo_lock' = [repo_lock EXCEPT ![lk[t].repo] = NoThread]
    /\ lk' = [lk EXCEPT ![t] = next]

\* a worker starts a job of repository r whose mirror exists
StartJob(t, r) ==
    /\ lk[t].pc = "idle"
    /\ lk' = [lk EXCEPT ![t] = [pc |-> "prepare", repo |-> r]]
    /\ UNCHANGED <<repo_lock, restOfLock>>

\* prepare_workspace enters `with repo_lock`: worktree remove and rmtree of
\* a workspace found there, then worktree add
LockPrepare(t) ==
    /\ lk[t].pc = "prepare"
    /\ LockAcquire(t, lk[t].repo, "worktree_add")
    /\ UNCHANGED restOfLock

\* prepare_workspace leaves the block: worktree add has succeeded, and
\* checkout_commit starts (git checkout -f, git clean, patches), or it has
\* raised, workspace_path is None and the finally clause does nothing
UnlockPrepare(t) ==
    /\ lk[t].pc = "worktree_add"
    /\ \E next \in {[lk[t] EXCEPT !.pc = "checkout"], LkIdle} : LockRelease(t, next)
    /\ UNCHANGED restOfLock

\* checkout_commit returns or raises; on return the scanner runs
EndCheckout(t) ==
    /\ lk[t].pc = "checkout"
    /\ \E next \in {"scan", "cleanup"} : lk' = [lk EXCEPT ![t].pc = next]
    /\ UNCHANGED <<repo_lock, restOfLock>>

EndScan(t) ==
    /\ lk[t].pc = "scan"
    /\ lk' = [lk EXCEPT ![t].pc = "cleanup"]
    /\ UNCHANGED <<repo_lock, restOfLock>>

\* the finally clause enters `with repo_lock`: git worktree remove --force
LockCleanup(t) ==
    /\ lk[t].pc = "cleanup"
    /\ LockAcquire(t, lk[t].repo, "worktree_remove")
    /\ UNCHANGED restOfLock

\* the finally clause leaves the block; shutil.rmtree follows it
UnlockCleanup(t) ==
    /\ lk[t].pc = "worktree_remove"
    /\ LockRelease(t, [lk[t] EXCEPT !.pc = "rmtree"])
    /\ UNCHANGED restOfLock

EndRmtree(t) ==
    /\ lk[t].pc = "rmtree"
    /\ lk' = [lk EXCEPT ![t] = LkIdle]
    /\ UNCHANGED <<repo_lock, restOfLock>>

\* process_csv pre-warms repository r for the next batch
StartEnsure(r) ==
    /\ lk[MainThread].pc = "idle"
    /\ lk' = [lk EXCEPT ![MainThread] = [pc |-> "ensure", repo |-> r]]
    /\ UNCHANGED <<repo_lock, restOfLock>>

\* ensure_repo enters `with repo_lock`: git clone, or git fetch --all
LockEnsure ==
    /\ lk[MainThread].pc = "ensure"
    /\ LockAcquire(MainThread, lk[MainThread].repo, "clone_or_fetch")
    /\ UNCHANGED restOfLock

UnlockEnsure ==
    /\ lk[MainThread].pc = "clone_or_fetch"
    /\ LockRelease(MainThread, LkIdle)
    /\ UNCHANGED restOfLock

NextLock ==
    \/ \E t \in Workers, r \in RepoNames : StartJob(t, r)
    \/ \E t \in Workers : LockPrepare(t)
    \/ \E t \in Workers : UnlockPrepare(t)
    \/ \E t \in Workers : EndCheckout(t)
    \/ \E t \in Workers : EndScan(t)
    \/ \E t \in Workers : LockCleanup(t)
    \/ \E t \in Workers : UnlockCleanup(t)
    \/ \E t \in Workers : EndRmtree(t)
    \/ \E r \in RepoNames : StartEnsure(r)
    \/ LockEnsure
    \/ UnlockEnsure

\* ------------------------------------------------------------------ store API, one caller
\* the engine constructed over an empty store, no CSV being processed
EngineIdle ==
    /\ scans = EmptyStore
    /\ time = 0
    /\ ops = 0
    /\ last = NoCall
    /\ csv = <<>>
    /\ phase = "idle"
    /\ run = 0
    /\ crashes = 0
    /\ submitted = 0
    /\ taken = 0
    /\ mirror = {}
    /\ pc = IdleWorkers
    /\ job = NoJobs
    /\ branch = Nulls
    /\ claim = Nulls
    /\ fail = Nulls
    /\ ret = Nulls
    /\ scanCount = [s \in SHAs |-> 0]
    /\ scanOk = {}
    /\ null_rows = 0
    /\ temp = {}
    /\ workspace_path = Nulls
    /\ batch_size = BATCH_SIZE
    /\ clone_failed = {}

InitStore ==
    /\ EngineIdle
    /\ WebFresh
    /\ LockFresh
    /\ PoolOf(0)
    /\ ForgeFresh
    /\ ReplayFresh
    /\ ToolsFresh

Call(op, sha, meta, error, err, outcome) ==
    [op |-> op, sha |-> sha, meta |-> meta, error |-> error, err |-> err,
     outcome |-> outcome]

ApiStep ==
    /\ ops < MaxOps
    /\ ops' = ops + 1
    /\ time' = time + 1
    /\ UNCHANGED <<poolVars, workerVars, histVars>>
    /\ UNCHANGED wsVars
    /\ UNCHANGED <<webVars, libVars>>

ApiTryClaimCommit ==
    /\ ApiStep
    /\ \E sha \in SHAs, meta \in MetaInputs, err \in BOOLEAN :
          LET r == TryClaimCommit(scans, sha, meta, time, err)
          IN  /\ scans' = r.store
              /\ last' = Call("try_claim_commit", sha, meta, NULL, err, r.outcome)

ApiMarkProcessed ==
    /\ ApiStep
    /\ \E sha \in SHAs, meta \in MetaInputs, err \in BOOLEAN :
          /\ scans' = MarkProcessed(scans, sha, meta, time, err)
          /\ last' = Call("mark_processed", sha, meta, NULL, err, NULL)

ApiMarkFailed ==
    /\ ApiStep
    /\ \E sha \in SHAs, error \in ErrorInputs, meta \in MetaInputs, err \in BOOLEAN :
          /\ scans' = MarkFailed(scans, sha, error, meta, time, err)
          /\ last' = Call("mark_failed", sha, meta, error, err, NULL)

ApiResetPendingJobs ==
    /\ ApiStep
    /\ \E err \in BOOLEAN :
          /\ scans' = ResetPendingJobs(scans, err)
          /\ last' = Call("reset_pending_jobs", NULL, NoMeta, NULL, err, NULL)

NextStore ==
    \/ ApiTryClaimCommit
    \/ ApiMarkProcessed
    \/ ApiMarkFailed
    \/ ApiResetPendingJobs

SpecStore == InitStore /\ [][NextStore]_vars

\* the repository locks, from the same quiescent state
SpecLock == InitStore /\ [][NextLock]_vars

\* ------------------------------------------------------------------ forge client
\* GitHubTokenPool and GitHubAPI._request, called by the pool's workers
\* (checkout_commit -> build_replay_plan -> get_commit / get_commit_patch).
restOfForge == <<engineVars, webVars, lockVars, replayVars, toolVars>>

Max2(a, b) == IF a >= b THEN a ELSE b

\* self._cursor = (self._cursor + 1) % len(self.tokens)
CursorStuck(c, n) == c
AdvanceCursor(c, n) == (c + 1) % n

\* the loop of acquire, entered with the cursor at c and `left` tokens to try
RECURSIVE AcquireLoop(_, _, _)
AcquireLoop(c, left, now) ==
    IF left = 0 THEN [token |-> NoToken, cursor |-> c]
    ELSE LET token == tokens[c + 1]
             c2 == AdvanceCursor(c, Len(tokens))
         IN  IF cooldowns[token] <= now
             THEN [token |-> token, cursor |-> c2]
             ELSE AcquireLoop(c2, left - 1, now)

\* next_available_at
LatestAvailableAt(cd, now) ==
    IF DOMAIN cd = {} THEN now
    ELSE CHOOSE x \in {cd[k] : k \in DOMAIN cd} : \A k \in DOMAIN cd : x >= cd[k]
NextAvailableAt(cd, now) ==
    IF DOMAIN cd = {} THEN now
    ELSE CHOOSE x \in {cd[k] : k \in DOMAIN cd} : \A k \in DOMAIN cd : x <= cd[k]

\* mark_rate_limited: float(reset_epoch) if reset_epoch else time.time() + 60.0,
\* then max(cooldown, time.time() + 1.0)
CooldownAsGiven(cooldown, now) == cooldown
CooldownFloor(cooldown, now) == Max2(cooldown, now + MIN_COOLDOWN)
MarkNothing(cd, token, reset_epoch, now) == cd
MarkRateLimited(cd, token, reset_epoch, now) ==
    IF token \notin DOMAIN cd THEN cd
    ELSE [cd EXCEPT ![token] =
             CooldownFloor(IF reset_epoch # NoReset THEN reset_epoch
                           ELSE now + DEFAULT_COOLDOWN, now)]

\* what the job records when the call made for it ends with `outcome`:
\* build_replay_plan wraps a GitHubAPIError of get_commit or get_commit_patch
\* in a MissingForkCommitError, everything else reaches process_single_job as
\* raised, and str(e) goes to mark_failed
JobFailure(outcome) ==
    IF outcome = Response THEN NoOutcome
    ELSE IF outcome = GitHubAPIError500
         THEN Outcome("MissingForkCommitError: Failed to connect to GitHub API after retries", 0)
         ELSE outcome

\* the call of thread t ends
EndCall(t, outcome) ==
    rq' = [rq EXCEPT ![t].pc = "done", ![t].token = NoToken, ![t].result = outcome,
                     ![t].failed_with = JobFailure(outcome)]

\* the end of one iteration of `for _ in range(3)` that did not return
Continue(t, only_late) ==
    IF rq[t].attempts + 1 = ATTEMPTS
    THEN rq' = [rq EXCEPT ![t].pc = "done", ![t].token = NoToken,
                          ![t].attempts = @ + 1, ![t].only_late = only_late,
                          ![t].result = GitHubAPIError500,
                          ![t].failed_with = JobFailure(GitHubAPIError500)]
    ELSE rq' = [rq EXCEPT ![t].pc = "acquire", ![t].token = NoToken,
                          ![t].attempts = @ + 1, ![t].only_late = only_late]

\* a worker calls _request
BeginRequest(t) ==
    /\ rq[t].pc = "idle"
    /\ ncalls < MaxCalls
    /\ ncalls' = ncalls + 1
    /\ rq' = [rq EXCEPT ![t] = [RqIdle EXCEPT !.pc = "acquire"]]
    /\ UNCHANGED <<tokens, cooldowns, cursor, clock, other_resets, restOfForge>>

\* acquire, before the lock: the empty pool raises, else now = time.time()
AcquireNow(t) ==
    /\ rq[t].pc = "acquire"
    /\ IF Len(tokens) = 0
       THEN EndCall(t, NoTokensConfigured)
       ELSE rq' = [rq EXCEPT ![t].pc = "scan", ![t].now = clock]
    /\ UNCHANGED <<tokens, cooldowns, cursor, clock, ncalls, other_resets, restOfForge>>

\* acquire, `with self._lock`: the loop over the tokens
AcquireScan(t) ==
    /\ rq[t].pc = "scan"
    /\ LET r == AcquireLoop(cursor, Len(tokens), rq[t].now)
       IN  /\ cursor' = r.cursor
           /\ IF r.token # NoToken
              THEN rq' = [rq EXCEPT ![t].pc = "send", ![t].now = 0,
                                    ![t].token = r.token]
              ELSE rq' = [rq EXCEPT ![t].pc = "raise_all", ![t].now = 0]
    /\ UNCHANGED <<tokens, cooldowns, clock, ncalls, other_resets, restOfForge>>

\* acquire, after the lock: raise AllTokensRateLimited(self.next_available_at()),
\* which _request lets through
AcquireRaise(t) ==
    /\ rq[t].pc = "raise_all"
    /\ EndCall(t, AllTokensRateLimited(NextAvailableAt(cooldowns, clock)))
    /\ UNCHANGED <<tokens, cooldowns, cursor, clock, ncalls, other_resets, restOfForge>>

\* the answer to the request sent with the token: a response that is
\* returned, a 403 with X-RateLimit-Remaining 0, or a RequestException
Answer(t) ==
    /\ rq[t].pc = "send"
    /\ \/ /\ rq' = [rq EXCEPT ![t].pc = "done", ![t].token = NoToken,
                               ![t].only_late = FALSE, ![t].result = Response,
                               ![t].failed_with = JobFailure(Response)]
          /\ UNCHANGED <<cooldowns, other_resets>>
       \/ \E reset \in Resets :
             /\ cooldowns' = MarkRateLimited(cooldowns, rq[t].token, reset, clock)
             /\ other_resets' = (other_resets \/ reset # LateReset)
             /\ Continue(t, rq[t].only_late /\ reset = LateReset)
       \/ /\ Continue(t, FALSE)
          /\ UNCHANGED <<cooldowns, other_resets>>
    /\ UNCHANGED <<tokens, cursor, clock, ncalls, restOfForge>>

\* the caller has taken the outcome
ReturnCall(t) ==
    /\ rq[t].pc = "done"
    /\ rq' = [rq EXCEPT ![t] = RqIdle]
    /\ UNCHANGED <<tokens, cooldowns, cursor, clock, ncalls, other_resets, restOfForge>>

\* time passes
Tick ==
    /\ clock < MaxTime
    /\ clock' = clock + 1
    /\ UNCHANGED <<tokens, cooldowns, cursor, rq, ncalls, other_resets, restOfForge>>

InitForge ==
    /\ EngineIdle
    /\ WebFresh
    /\ LockFresh
    /\ \E n \in 0..MaxTokens : PoolOf(n)
    /\ ForgeFresh
    /\ ReplayFresh
    /\ ToolsFresh

NextForge ==
    \/ \E t \in Workers : BeginRequest(t)
    \/ \E t \in Workers : AcquireNow(t)
    \/ \E t \in Workers : AcquireScan(t)
    \/ \E t \in Workers : AcquireRaise(t)
    \/ \E t \in Workers : Answer(t)
    \/ \E t \in Workers : ReturnCall(t)
    \/ Tick

SpecForge == InitForge /\ [][NextForge]_vars

\* ------------------------------------------------------------------ commit replay
\* build_replay_plan and apply_replay_plan, called by checkout_commit for a
\* commit the worktree lacks.  The forge answers each get_commit when it is
\* made; a history has no cycle, so a reported parent is a commit not yet
\* traversed.
restOfReplay == <<engineVars, webVars, lockVars, forgeVars, toolVars>>

\* missing_commits.reverse()
AsCollected(q) == q
RECURSIVE Reversed(_)
Reversed(q) == IF q = <<>> THEN <<>> ELSE Append(Reversed(Tail(q)), Head(q))

\* if depth > max_depth
DepthNeverExceeded(depth, max_depth) == FALSE
DepthExceeded(depth, max_depth) == depth > max_depth

\* len(parents) != 1 is the refusal
AnyParent(parents) == Len(parents) >= 1
SingleParent(parents) == Len(parents) = 1

\* the parents lists the forge can report for commit c
Unseen(c) == ForgeCommits \ (DOMAIN payloads \cup {c})
ParentLists(c) ==
    {<<>>} \cup {<<p>> : p \in Unseen(c) \cup {NoSha}}
           \cup {<<pq[1], pq[2]>> : pq \in {x \in Unseen(c) \X Unseen(c) : x[1] < x[2]}}

Fails(error) == replay' = [replay EXCEPT !.pc = "done", !.error = error]

\* the call, up to the loop
BuildReplayPlan ==
    /\ replay.pc = "start"
    /\ IF replay.target_sha \in commit_exists
       THEN Fails(ReplayError("ValueError", replay.target_sha,
                              "already exists, replay is unnecessary"))
       ELSE replay' = [replay EXCEPT !.pc = "loop", !.current = replay.target_sha]
    /\ UNCHANGED <<commit_exists, payloads, restOfReplay>>

\* one iteration, up to the parents check
GetCommit ==
    /\ replay.pc = "loop"
    /\ LET depth == replay.depth + 1
           current == replay.current
       IN  IF DepthExceeded(depth, replay.max_depth)
           THEN /\ replay' = [replay EXCEPT !.pc = "done", !.depth = depth,
                                 !.error = MissingForkCommitError(replay.target_sha,
                                              "Exceeded parent traversal limit")]
                /\ UNCHANGED payloads
           ELSE \/ /\ replay' = [replay EXCEPT !.pc = "done", !.depth = depth,
                                    !.gets = @ + 1,
                                    !.error = MissingForkCommitError(current,
                                                 "GitHub API error while loading commit")]
                   /\ UNCHANGED payloads
                \/ /\ replay' = [replay EXCEPT !.pc = "done", !.depth = depth,
                                    !.gets = @ + 1,
                                    !.error = ReplayError("AllTokensRateLimited", NoSha,
                                                          "All GitHub tokens are rate limited")]
                   /\ UNCHANGED payloads
                \/ \E parents \in ParentLists(current) :
                      /\ payloads' = [c \in DOMAIN payloads \cup {current} |->
                                         IF c = current THEN parents ELSE payloads[c]]
                      /\ IF ~SingleParent(parents)
                         THEN replay' = [replay EXCEPT !.pc = "done", !.depth = depth,
                                    !.gets = @ + 1,
                                    !.error = MissingForkCommitError(current,
                                       "Cannot replay commit with zero or multiple parents")]
                         ELSE replay' = [replay EXCEPT !.pc = "patch", !.depth = depth,
                                                       !.gets = @ + 1]
    /\ UNCHANGED <<commit_exists, restOfReplay>>

\* the rest of the iteration, from get_commit_patch on
GetCommitPatch ==
    /\ replay.pc = "patch"
    /\ LET current == replay.current
           parent_sha == payloads[current][1]
           missing_commits == Append(replay.missing_commits, current)
       IN  \/ Fails(MissingForkCommitError(current, "Failed to download patch"))
           \/ IF parent_sha = NoSha
              THEN replay' = [replay EXCEPT !.pc = "done",
                                 !.missing_commits = missing_commits,
                                 !.error = MissingForkCommitError(current,
                                    "Commit metadata missing parent SHA; cannot continue")]
              ELSE IF parent_sha \in commit_exists
              THEN replay' = [replay EXCEPT !.pc = "apply",
                                 !.missing_commits = Reversed(missing_commits),
                                 !.plan = ReplayPlan(parent_sha, Reversed(missing_commits))]
              ELSE IF parent_sha \in replay.visited
              THEN replay' = [replay EXCEPT !.pc = "done",
                                 !.missing_commits = missing_commits,
                                 !.error = MissingForkCommitError(current,
                                    "Detected a parent traversal loop")]
              ELSE replay' = [replay EXCEPT !.missing_commits = missing_commits,
                                 !.pc = "loop",
                                 !.visited = @ \cup {current},
                                 !.current = parent_sha]
    /\ UNCHANGED <<commit_exists, payloads, restOfReplay>>

\* apply_replay_plan: the next patch of the plan applies or git apply fails
ApplyPatch ==
    /\ replay.pc = "apply"
    /\ LET n == Len(replay.applied) + 1
       IN  IF n > Len(replay.plan.commits)
           THEN replay' = [replay EXCEPT !.pc = "done"]
           ELSE \/ replay' = [replay EXCEPT !.applied = Append(@, replay.plan.commits[n])]
                \/ Fails(MissingForkCommitError(replay.plan.commits[n],
                                                "Failed to apply patch"))
    /\ UNCHANGED <<commit_exists, payloads, restOfReplay>>

InitReplay ==
    /\ EngineIdle
    /\ WebFresh
    /\ LockFresh
    /\ PoolOf(0)
    /\ ForgeFresh
    /\ commit_exists \in SUBSET ForgeCommits
    /\ payloads = NoPayloads
    /\ \E target_sha \in ForgeCommits, max_depth \in 1..MaxCommits :
          replay = ReplayCall("start", target_sha, max_depth)
    /\ ToolsFresh

NextReplay ==
    \/ BuildReplayPlan
    \/ GetCommit
    \/ GetCommitPatch
    \/ ApplyPatch

SpecReplay == InitReplay /\ [][NextReplay]_vars

\* the call is sequential code that runs on until it returns or raises
SpecReplayFair == SpecReplay /\ WF_vars(NextReplay)

\* ------------------------------------------------------------------ checkout_commit
\* checkout_commit of one job on its worktree; commit_sha is the target_sha of
\* the replay call it may make.
restOfCheckout == <<engineVars, webVars, lockVars, forgeVars, sonar, exporter>>

\* if self.github and repo_slug
CanReplayAnyRepo(github, repo_slug) == github
CanReplay(github, repo_slug) == github /\ repo_slug

Raises(error) == checkout' = [checkout EXCEPT !.pc = "done", !.outcome = "raised",
                                              !.error = error]
NotReplayable(commit_sha) ==
    ReplayError("RuntimeError", commit_sha, "not found and cannot be replayed")
CommandFailed(commit_sha) == ReplayError("CalledProcessError", commit_sha, "git")

\* 1. if self._commit_exists(repo_path, commit_sha): checkout -f, clean -fdx,
\* return; a failure of either is logged and the call goes on
StandardCheckout ==
    /\ checkout.pc = "start"
    /\ IF replay.target_sha \in commit_exists
       THEN \E checked_out \in BOOLEAN, cleaned \in BOOLEAN :
               /\ cleaned => checked_out
               /\ checkout' = [checkout EXCEPT
                      !.head = IF checked_out THEN replay.target_sha ELSE @,
                      !.cleaned = cleaned,
                      !.pc = IF cleaned THEN "done" ELSE "missing",
                      !.outcome = IF cleaned THEN "returned" ELSE @]
       ELSE checkout' = [checkout EXCEPT !.pc = "missing"]
    /\ UNCHANGED <<replayVars, restOfCheckout>>

\* 2. the replay is tried, or the RuntimeError of the last line
TryReplay ==
    /\ checkout.pc = "missing"
    /\ IF CanReplay(checkout.github, checkout.repo_slug)
       THEN /\ checkout' = [checkout EXCEPT !.pc = "replay"]
            /\ replay' = [replay EXCEPT !.pc = "start"]
       ELSE /\ Raises(NotReplayable(replay.target_sha))
            /\ UNCHANGED replay
    /\ UNCHANGED <<commit_exists, payloads, restOfCheckout>>

\* git checkout -f plan.base_sha and git clean -fdx
CheckoutBase ==
    /\ checkout.pc = "replay"
    /\ replay.pc = "apply"
    /\ \E checked_out \in BOOLEAN, cleaned \in BOOLEAN :
          /\ cleaned => checked_out
          /\ checkout' = [checkout EXCEPT
                 !.head = IF checked_out THEN replay.plan.base_sha ELSE @,
                 !.cleaned = cleaned,
                 !.pc = IF cleaned THEN "applying" ELSE "done",
                 !.outcome = IF cleaned THEN @ ELSE "raised",
                 !.error = IF cleaned THEN @ ELSE CommandFailed(replay.plan.base_sha)]
    /\ UNCHANGED <<replayVars, restOfCheckout>>

\* build_replay_plan or apply_replay_plan has ended: return, or raise e
EndReplay ==
    /\ checkout.pc \in {"replay", "applying"}
    /\ replay.pc = "done"
    /\ IF replay.error = NoError
       THEN checkout' = [checkout EXCEPT !.pc = "done", !.outcome = "returned"]
       ELSE Raises(replay.error)
    /\ UNCHANGED <<replayVars, restOfCheckout>>

InitCheckout ==
    /\ EngineIdle
    /\ WebFresh
    /\ LockFresh
    /\ PoolOf(0)
    /\ ForgeFresh
    /\ SonarFresh
    /\ ExporterFresh
    /\ commit_exists \in SUBSET ForgeCommits
    /\ payloads = NoPayloads
    /\ \E target_sha \in ForgeCommits, max_depth \in 1..MaxCommits :
          replay = ReplayCall("idle", target_sha, max_depth)
    /\ \E github \in BOOLEAN, repo_slug \in BOOLEAN :
          checkout = CheckoutCall("start", github, repo_slug)

NextCheckout ==
    \/ StandardCheckout
    \/ TryReplay
    \/ checkout.pc = "replay" /\ BuildReplayPlan
    \/ checkout.pc = "replay" /\ GetCommit
    \/ checkout.pc = "replay" /\ GetCommitPatch
    \/ CheckoutBase
    \/ checkout.pc = "applying" /\ ApplyPatch
    \/ EndReplay

SpecCheckout == InitCheckout /\ [][NextCheckout]_vars

\* ------------------------------------------------------------------ scanner and compute engine
\* run_sonar_scan with wait_for_compute_engine, and the mark that
\* process_single_job makes of its result, for one job.
restOfSonar == <<engineVars, webVars, lockVars, forgeVars, replayVars, exporter, checkout>>

\* if resp.status_code == 401: return
Unauthorized(answer) == answer = "401"
\* if not current and not queue: return
NoTasks(answer) == answer = "idle"
\* if status in {"SUCCESS", "FAILED", "CANCELED"}: return
FinishedOnSuccess(answer) == answer = "SUCCESS"
Finished(answer) == answer \in {"SUCCESS", "FAILED", "CANCELED"}

\* return True, reached whenever wait_for_compute_engine has returned
AfterWaitIngested(stop) == stop \in {"idle", "SUCCESS"}
AfterWait(stop) == TRUE

\* self.run_command(cmd): the scanner exits 0 or run_command raises
RunScanner ==
    /\ sonar.pc = "start"
    /\ \E exit \in {0, 1} :
          sonar' = IF exit # 0
                   THEN [sonar EXCEPT !.pc = "returned", !.exit = exit, !.success = FALSE]
                   ELSE IF sonar.WAIT_FOR_CE
                        THEN [sonar EXCEPT !.pc = "wait", !.exit = exit]
                        ELSE [sonar EXCEPT !.pc = "returned", !.exit = exit,
                                           !.success = TRUE]
    /\ UNCHANGED restOfSonar

\* wait_for_compute_engine up to the loop
EnterWait ==
    /\ sonar.pc = "wait"
    /\ sonar' = IF ~sonar.configured
                THEN [sonar EXCEPT !.pc = "after_wait", !.stop = "unconfigured"]
                ELSE [sonar EXCEPT !.pc = "loop",
                                   !.deadline = sonar.now + sonar.WAIT_FOR_CE_TIMEOUT]
    /\ UNCHANGED restOfSonar

\* while time.time() < deadline
LoopTest ==
    /\ sonar.pc = "loop"
    /\ sonar' = IF sonar.now < sonar.deadline
                THEN [sonar EXCEPT !.pc = "poll"]
                ELSE [sonar EXCEPT !.pc = "after_wait", !.stop = "timeout"]
    /\ UNCHANGED restOfSonar

\* the body of the loop up to the sleep
Poll ==
    /\ sonar.pc = "poll"
    /\ \E answer \in CeAnswers, latency \in Latencies :
          sonar' = IF Unauthorized(answer) \/ NoTasks(answer) \/ Finished(answer)
                   THEN [sonar EXCEPT !.pc = "after_wait", !.stop = answer,
                                      !.answer = answer, !.polls = @ + 1,
                                      !.polled_at = sonar.now,
                                      !.now = @ + latency]
                   ELSE [sonar EXCEPT !.pc = "sleep",
                                      !.answer = answer, !.polls = @ + 1,
                                      !.polled_at = sonar.now,
                                      !.now = @ + latency]
    /\ UNCHANGED restOfSonar

\* time.sleep(Config.WAIT_FOR_CE_POLL)
Sleep ==
    /\ sonar.pc = "sleep"
    /\ sonar' = [sonar EXCEPT !.pc = "loop", !.now = @ + sonar.WAIT_FOR_CE_POLL]
    /\ UNCHANGED restOfSonar

\* wait_for_compute_engine has returned into run_sonar_scan
ReturnScan ==
    /\ sonar.pc = "after_wait"
    /\ sonar' = [sonar EXCEPT !.pc = "returned", !.success = AfterWait(sonar.stop)]
    /\ UNCHANGED restOfSonar

\* process_single_job: mark_processed if success, else mark_failed
MarkScan ==
    /\ sonar.pc = "returned"
    /\ sonar' = [sonar EXCEPT !.pc = "done",
                              !.marked = IF sonar.success THEN PROCESSED ELSE FAILED]
    /\ UNCHANGED restOfSonar

InitWait ==
    /\ EngineIdle
    /\ WebFresh
    /\ LockFresh
    /\ PoolOf(0)
    /\ ForgeFresh
    /\ ReplayFresh
    /\ \E wait_for_ce \in BOOLEAN, configured \in BOOLEAN,
          timeout \in 0..MaxWait, poll \in 1..MaxPoll :
          sonar = SonarCall("start", wait_for_ce, configured, timeout, poll)
    /\ ExporterFresh
    /\ CheckoutFresh

NextWait ==
    \/ RunScanner
    \/ EnterWait
    \/ LoopTest
    \/ Poll
    \/ Sleep
    \/ ReturnScan
    \/ MarkScan

SpecWait == InitWait /\ [][NextWait]_vars

\* the thread of the job runs on
SpecWaitFair == SpecWait /\ WF_vars(NextWait)

\* ------------------------------------------------------------------ metrics exporter
restOfExporter == <<engineVars, webVars, lockVars, forgeVars, replayVars, sonar, checkout>>

\* process_project in a pool thread: fetch the measures of one project (or
\* fail), then the pending test and the row
ProcessProject ==
    /\ exporter.pc \in {"idle", "collected"}
    /\ \E key \in exporter.todo, raised \in BOOLEAN, measures \in MeasureLists :
          /\ raised => measures = <<>>
          /\ exporter' = [exporter EXCEPT
                 !.pc = "result", !.key = key, !.todo = @ \ {key},
                 !.raised = raised, !.measures = measures,
                 !.is_pending = ~raised /\ is_project_pending(measures),
                 !.row = IF raised THEN NoRow
                         ELSE measures_to_row(key, ALL_METRIC_KEYS, measures)]
    /\ UNCHANGED restOfExporter

\* the body of the as_completed loop of main for one future; measures and row
\* are locals that end with it, skipped keeps the number of measures of each
\* project skipped as pending
Collect ==
    /\ exporter.pc = "result"
    /\ exporter' =
          IF exporter.raised
          THEN [exporter EXCEPT !.pc = "collected", !.failures = @ + 1,
                                !.measures = <<>>, !.row = NoRow]
          ELSE IF exporter.is_pending
          THEN [exporter EXCEPT !.pc = "collected", !.skipped_pending = @ + 1,
                                !.skipped = Append(@, Len(exporter.measures)),
                                !.measures = <<>>, !.row = NoRow]
          ELSE IF WriterRaises(exporter.row)
          THEN [exporter EXCEPT !.pc = "collected", !.failures = @ + 1,
                                !.measures = <<>>, !.row = NoRow]
          ELSE [exporter EXCEPT
                  !.pc = "collected", !.measures = <<>>, !.row = NoRow,
                  !.csv = Append(@, exporter.row),
                  !.jsonl = IF exporter.jsonl_on THEN Append(@, exporter.key) ELSE @,
                  !.done = Append(@, exporter.key),
                  !.success = @ + 1]
    /\ UNCHANGED restOfExporter

InitExport ==
    /\ EngineIdle
    /\ WebFresh
    /\ LockFresh
    /\ PoolOf(0)
    /\ ForgeFresh
    /\ ReplayFresh
    /\ SonarFresh
    /\ CheckoutFresh
    /\ \E jsonl \in BOOLEAN : exporter = Export("idle", jsonl, ProjectKeys)

NextExport ==
    \/ ProcessProject
    \/ Collect

SpecExport == InitExport /\ [][NextExport]_vars

\* ------------------------------------------------------------------ uploads table
\* reset_upload_states: UPDATE uploads SET status = 'uploaded', job_id = NULL,
\* error_msg = NULL WHERE status IN ('queued', 'running'); an exception is
\* logged and swallowed.
ResetUploadStates(db, err) ==
    IF err THEN db
    ELSE [u \in DOMAIN db |->
            IF db[u].status \in {"queued", "running"}
            THEN UploadRow("uploaded", NoJobId, NULL)
            ELSE db[u]]

\* update_upload_status: nothing if the row is absent, else UPDATE uploads SET
\* status = COALESCE(?, status), job_id = COALESCE(?, job_id),
\* error_msg = COALESCE(?, error_msg); an exception is logged and swallowed.
UpdateUploadStatus(db, u, status, j, error, err) ==
    IF err \/ u \notin DOMAIN db THEN db
    ELSE [db EXCEPT ![u] =
            [status |-> COALESCE(status, @.status),
             job_id |-> IF j # NoJobId THEN j ELSE @.job_id,
             error_msg |-> COALESCE(error, @.error_msg)]]

\* upsert_upload: INSERT OR REPLACE INTO uploads; an exception is swallowed.
UpsertUpload(db, u, row, err) ==
    IF err THEN db
    ELSE [x \in DOMAIN db \cup {u} |-> IF x = u THEN row ELSE db[x]]

\* get_uploads: the rows as dicts; [] when the query raises
GetUploads(db, err) ==
    IF err THEN EmptyUploads ELSE [u \in DOMAIN db |-> UploadEntry(db[u].status)]

\* ------------------------------------------------------------------ webapp
\* _can_start_upload
CanStartUpload(upload) == upload.status \notin {"queued", "running", "completed"}

\* the order in which a dict loaded by _load_uploads_from_db is iterated
\* (ORDER BY uploaded_at DESC; u2 was uploaded after u1)
UploadOrder(S) ==
    (IF "u2" \in S THEN <<"u2">> ELSE <<>>) \o (IF "u1" \in S THEN <<"u1">> ELSE <<>>)

\* start_scan: a new job, queued, appended to the job queue
NewJob(u) == [status |-> "queued", upload_id |-> u, error |-> NULL]

StartScan(u) ==
    /\ njobs' = njobs + 1
    /\ jobs' = jobs @@ ((njobs + 1) :> NewJob(u))
    /\ job_queue' = Append(job_queue, <<njobs + 1, u>>)

\* job_queue.popleft()
QueuePopRight(q) == [item |-> q[Len(q)], rest |-> SubSeq(q, 1, Len(q) - 1)]
QueuePop(q) == [item |-> Head(q), rest |-> Tail(q)]

\* text of the exception check_dependencies raises
DependencyError == "git is not installed or not in PATH."

\* str(KeyError(upload_id))
KeyErrorText(u) == "'" \o u \o "'"

\* upload_csv, after the file is saved: the entry is put in the dict and
\* upserted; the id is a new uuid4
UploadCsv(u) ==
    /\ web = "up"
    /\ h.pc = "idle"
    /\ u \notin created
    /\ (u = "u2" => "u1" \in created)
    /\ created' = created \cup {u}
    /\ uploads' = [x \in DOMAIN uploads \cup {u} |->
                     IF x = u THEN UploadEntry("uploaded") ELSE uploads[x]]
    /\ \E err \in BOOLEAN :
          /\ uploads_db' = UpsertUpload(uploads_db, u, UploadRow("uploaded", NoJobId, NULL), err)
          /\ webFault' = (webFault \/ err)
    /\ UNCHANGED <<jobs, job_queue, web, jw, h, njobs>>
    /\ UNCHANGED <<engineVars, libVars>>

\* jobs a request may create
JobsOf(req) ==
    IF req = "scan" THEN 1 ELSE IF req = "scan_all" THEN Cardinality(Uploads) ELSE 0

\* list_uploads, scan_upload(u), scan_all_pending begin with
\* _load_uploads_from_db, whose first statement is uploads.clear()
Request(req, u) ==
    /\ web = "up"
    /\ h.pc = "idle"
    /\ njobs + JobsOf(req) <= MaxJobs
    /\ uploads' = EmptyUploads
    /\ h' = [HIdle EXCEPT !.pc = "refill", !.req = req, !.upload_id = u]
    /\ UNCHANGED <<uploads_db, jobs, job_queue, web, jw, njobs, created, webFault>>
    /\ UNCHANGED <<engineVars, libVars>>

ListUploads ==
    /\ Request("list", NULL)

ScanUpload(u) ==
    /\ Request("scan", u)

ScanAllPending ==
    /\ Request("scan_all", NULL)

\* _load_uploads_from_db, second statement: the dict is filled from
\* get_uploads().  Then list_uploads returns; scan_upload answers 404 or
\* "already queued/running/completed", or calls start_scan;
\* scan_all_pending starts its loop over uploads.values().
LoadUploads ==
    /\ h.pc = "refill"
    /\ \E err \in BOOLEAN :
          LET loaded == GetUploads(uploads_db, err)
              u == h.upload_id
          IN  /\ uploads' = loaded
              /\ webFault' = (webFault \/ err)
              /\ IF h.req = "scan" /\ u \in DOMAIN loaded /\ CanStartUpload(loaded[u])
                 THEN /\ StartScan(u)
                      /\ h' = [h EXCEPT !.pc = "write", !.job_id = njobs + 1]
                 ELSE /\ h' = IF h.req = "scan_all"
                              THEN [h EXCEPT !.pc = "loop", !.rest = UploadOrder(DOMAIN loaded)]
                              ELSE HIdle
                      /\ UNCHANGED <<jobs, job_queue, njobs>>
    /\ UNCHANGED <<uploads_db, web, jw, created>>
    /\ UNCHANGED <<engineVars, libVars>>

\* scan_all_pending: one iteration of its loop up to start_scan, or its return
ScanAllNext ==
    /\ h.pc = "loop"
    /\ IF h.rest = <<>>
       THEN /\ h' = HIdle
            /\ UNCHANGED <<jobs, job_queue, njobs>>
       ELSE LET u == Head(h.rest)
            IN  IF CanStartUpload(uploads[u])
                THEN /\ StartScan(u)
                     /\ h' = [h EXCEPT !.pc = "write", !.upload_id = u,
                                       !.job_id = njobs + 1, !.rest = Tail(h.rest)]
                ELSE /\ h' = [h EXCEPT !.rest = Tail(h.rest)]
                     /\ UNCHANGED <<jobs, job_queue, njobs>>
    /\ UNCHANGED <<uploads_db, uploads, web, jw, created, webFault>>
    /\ UNCHANGED <<engineVars, libVars>>

\* scan_upload / scan_all_pending after start_scan has returned:
\* upload["status"] = "queued"; upload["job_id"] = job_id;
\* update_upload_status(upload_id, status="queued", job_id=job_id)
MarkQueued ==
    /\ h.pc = "write"
    /\ uploads' = [uploads EXCEPT ![h.upload_id] = UploadEntry("queued")]
    /\ \E err \in BOOLEAN :
          /\ uploads_db' = UpdateUploadStatus(uploads_db, h.upload_id, "queued",
                                              h.job_id, NULL, err)
          /\ webFault' = (webFault \/ err)
    /\ h' = IF h.req = "scan_all"
            THEN [h EXCEPT !.pc = "loop", !.upload_id = NULL, !.job_id = NoJobId]
            ELSE HIdle
    /\ UNCHANGED <<jobs, job_queue, web, jw, njobs, created>>
    /\ UNCHANGED <<engineVars, libVars>>

\* the worker's "if upload_id and upload_id in uploads" guard
UploadKnown(u) == u \in DOMAIN uploads

\* the guarded block: the dict entry is written, then the row
MirrorStatus(status, error) ==
    /\ uploads' = [uploads EXCEPT ![jw.upload_id] = UploadEntry(status)]
    /\ \E err \in BOOLEAN :
          /\ uploads_db' = UpdateUploadStatus(uploads_db, jw.upload_id, status,
                                              jw.job_id, error, err)
          /\ webFault' = (webFault \/ err)

\* _job_worker: a tuple is taken from the queue, the job becomes running, and
\* the guard of the first mirroring block is evaluated
WorkerTake ==
    /\ web = "up"
    /\ jw.pc = "wait"
    /\ job_queue # <<>>
    /\ LET t == QueuePop(job_queue)
       IN  /\ job_queue' = t.rest
           /\ jobs' = [jobs EXCEPT ![t.item[1]].status = "running"]
           /\ jw' = [pc |-> IF UploadKnown(t.item[2]) THEN "mirror_running" ELSE "process",
                     job_id |-> t.item[1], upload_id |-> t.item[2], exc |-> NULL]
    /\ UNCHANGED <<uploads_db, uploads, web, h, njobs, created, webFault>>
    /\ UNCHANGED <<engineVars, libVars>>

\* the first mirroring block; a dict cleared since the guard makes the
\* subscript raise KeyError outside any try: the thread ends
WorkerMirrorRunning ==
    /\ jw.pc = "mirror_running"
    /\ IF UploadKnown(jw.upload_id)
       THEN /\ MirrorStatus("running", NULL)
            /\ jw' = [jw EXCEPT !.pc = "process"]
       ELSE /\ jw' = [jw EXCEPT !.pc = "dead"]
            /\ UNCHANGED <<uploads_db, uploads, webFault>>
    /\ UNCHANGED <<jobs, job_queue, web, h, njobs, created>>
    /\ UNCHANGED <<engineVars, libVars>>

\* check_dependencies raises, or process_csv (under scan_lock) returns; then
\* the job becomes completed and the guard of the next block is evaluated
WorkerProcess ==
    /\ jw.pc = "process"
    /\ \/ /\ jw' = [jw EXCEPT !.pc = "except", !.exc = DependencyError]
          /\ UNCHANGED jobs
       \/ /\ jobs' = [jobs EXCEPT ![jw.job_id].status = "completed"]
          /\ jw' = IF UploadKnown(jw.upload_id)
                   THEN [jw EXCEPT !.pc = "mirror_completed"] ELSE JwWaiting
    /\ UNCHANGED <<uploads_db, uploads, job_queue, web, h, njobs, created,
                   webFault>>
    /\ UNCHANGED <<engineVars, libVars>>

\* the block after process_csv; its KeyError is caught by the except clause
WorkerMirrorCompleted ==
    /\ jw.pc = "mirror_completed"
    /\ IF UploadKnown(jw.upload_id)
       THEN /\ MirrorStatus("completed", NULL)
            /\ jw' = JwWaiting
       ELSE /\ jw' = [jw EXCEPT !.pc = "except", !.exc = KeyErrorText(jw.upload_id)]
            /\ UNCHANGED <<uploads_db, uploads, webFault>>
    /\ UNCHANGED <<jobs, job_queue, web, h, njobs, created>>
    /\ UNCHANGED <<engineVars, libVars>>

\* except Exception as exc: the job becomes error with str(exc), and the
\* guard of the block of the except clause is evaluated
WorkerExcept ==
    /\ jw.pc = "except"
    /\ jobs' = [jobs EXCEPT ![jw.job_id] = [@ EXCEPT !.status = "error", !.error = jw.exc]]
    /\ jw' = IF UploadKnown(jw.upload_id)
             THEN [jw EXCEPT !.pc = "mirror_error"] ELSE JwWaiting
    /\ UNCHANGED <<uploads_db, uploads, job_queue, web, h, njobs, created,
                   webFault>>
    /\ UNCHANGED <<engineVars, libVars>>

\* the block of the except clause; its KeyError ends the thread
WorkerMirrorError ==
    /\ jw.pc = "mirror_error"
    /\ IF UploadKnown(jw.upload_id)
       THEN /\ MirrorStatus("error", jw.exc)
            /\ jw' = JwWaiting
       ELSE /\ jw' = [jw EXCEPT !.pc = "dead"]
            /\ UNCHANGED <<uploads_db, uploads, webFault>>
    /\ UNCHANGED <<jobs, job_queue, web, h, njobs, created>>
    /\ UNCHANGED <<engineVars, libVars>>

\* the webapp process dies: dict, job store, queue and threads are gone
WebCrash ==
    /\ web = "up"
    /\ web' = "down"
    /\ uploads' = EmptyUploads
    /\ jobs' = EmptyJobs
    /\ job_queue' = <<>>
    /\ jw' = JwWaiting
    /\ h' = HIdle
    /\ UNCHANGED <<uploads_db, njobs, created, webFault>>
    /\ UNCHANGED <<engineVars, libVars>>

\* module start-up: reset_upload_states, then _load_uploads_from_db, then
\* the worker thread is started
StartupNoReset(db, err) == db
StartupUploads(db, err) == ResetUploadStates(db, err)

WebStartup ==
    /\ web = "down"
    /\ web' = "up"
    /\ \E err1 \in BOOLEAN, err2 \in BOOLEAN :
          /\ uploads_db' = StartupUploads(uploads_db, err1)
          /\ uploads' = GetUploads(uploads_db', err2)
          /\ webFault' = (webFault \/ err1 \/ err2)
    /\ UNCHANGED <<jobs, job_queue, jw, h, njobs, created>>
    /\ UNCHANGED <<engineVars, libVars>>

NextWeb ==
    \/ \E u \in Uploads : UploadCsv(u)
    \/ ListUploads
    \/ \E u \in Uploads : ScanUpload(u)
    \/ ScanAllPending
    \/ LoadUploads
    \/ ScanAllNext
    \/ MarkQueued
    \/ WorkerTake
    \/ WorkerMirrorRunning
    \/ WorkerProcess
    \/ WorkerMirrorCompleted
    \/ WorkerExcept
    \/ WorkerMirrorError
    \/ WebCrash
    \/ WebStartup

SpecWeb == InitStore /\ [][NextWeb]_vars

\* the worker thread is scheduled: each of its steps that stays possible is
\* taken (process_csv returns or check_dependencies raises)
SpecWebFair ==
    /\ SpecWeb
    /\ WF_vars(WorkerTake)
    /\ WF_vars(WorkerMirrorRunning)
    /\ WF_vars(WorkerProcess)
    /\ WF_vars(WorkerMirrorCompleted)
    /\ WF_vars(WorkerExcept)
    /\ WF_vars(WorkerMirrorError)

\* ------------------------------------------------------------------ claims
\* a worker holds the claim of its SHA from the successful return of
\* try_claim_commit to the return of mark_processed / mark_failed
HoldsClaim(w) == pc[w] \in {"prepare", "checkout", "scan", "mark"}

\* valid rows of the CSV that name SHA s
RowsOf(s) == {i \in 1..Len(csv) : RowValid(csv[i]) /\ RowSha(csv[i]) = s}

\* the step is a store API call of SpecStore
IsCall(op) == ops' = ops + 1 /\ last'.op = op

\* C1: for every SHA, at most one worker at a time holds its claim.
\* Stated as the claim has it; the code lets a second worker resume a
\* PENDING row that the first worker is still working on.
CE_C1_OneHolderPerSha ==
    \A w1 \in Workers, w2 \in Workers :
        (w1 # w2 /\ HoldsClaim(w1) /\ HoldsClaim(w2) /\ JobSha(w1) \in SHAs)
            => JobSha(w1) # JobSha(w2)

\* C2: when the CSV names a SHA in two rows, the scanner is invoked once for
\* it and the other row is skipped as already-terminal: within the first
\* run no such SHA is scanned twice and no two rows of it are both claimed.
CE_C2_DuplicateScannedOnce ==
    (run = 1 /\ crashes = 0) =>
        \A s \in SHAs :
            Cardinality(RowsOf(s)) = 2 =>
                /\ scanCount[s] <= 1
                /\ \A w1 \in Workers, w2 \in Workers :
                      (w1 # w2 /\ job[w1] \in RowsOf(s) /\ job[w2] \in RowsOf(s))
                          => ~(ClaimReturn(claim[w1]) /\ ClaimReturn(claim[w2]))

\* C3: after process_csv has run twice in succession over the same CSV (no
\* crash), the scanner has been invoked at most once for each SHA.
CE_C3_TwoRunsScanOnce ==
    (crashes = 0 /\ run = 2 /\ phase = "idle") => \A s \in SHAs : scanCount[s] <= 1

\* C4: try_claim_commit on a SHA whose row is PROCESSED or FAILED returns
\* already-terminal (False) and leaves that row and every other row as they were.
C4_TerminalClaimNoMutation ==
    [][(IsCall("try_claim_commit")
            /\ last'.sha \in DOMAIN scans
            /\ scans[last'.sha].status \in Terminal)
        => /\ scans' = scans
           /\ ~ClaimReturn(last'.outcome)
           /\ (~last'.err => last'.outcome = "already-terminal")]_vars

W_C4_TerminalClaimed ==
    /\ last.op = "try_claim_commit"
    /\ last.outcome = "already-terminal"
    /\ last.sha \in DOMAIN scans
    /\ scans[last.sha].status = FAILED
    /\ \E s \in DOMAIN scans : s # last.sha

CE_C6_ProcessedNotClaimable ==
    [][(IsCall("try_claim_commit")
            /\ last.op = "mark_processed"
            /\ last.sha = last'.sha
            /\ last.sha \in DOMAIN scans)
        => ~ClaimReturn(last'.outcome)]_vars

\* C7, first part: start-up leaves every row of the store, PENDING ones
\* included, as it was.
C7_RestartKeepsRows ==
    [][(phase = "down" /\ phase' = "idle") => scans' = scans]_vars

\* C7: after a crash and restart, a job that claimed the PENDING row of the
\* crashed run as resumed-pending (one row of the CSV names the SHA, so the
\* PENDING row it found is the survivor) has, when it returns, left the row
\* in a terminal state.
CE_C7_ResumedEndsTerminal ==
    \A w \in Workers :
        (crashes > 0 /\ pc[w] = "idle" /\ claim[w] = "resumed-pending"
            /\ Cardinality(RowsOf(JobSha(w))) = 1)
            => /\ JobSha(w) \in DOMAIN scans
               /\ scans[JobSha(w)].status \in Terminal

\* C8: every FAILED row carries a non-empty error message.
C8_FailedHasMessage ==
    \A s \in DOMAIN scans :
        scans[s].status = FAILED => scans[s].error_msg \notin {NULL, ""}

W_C8_SomeFailed ==
    \E s \in DOMAIN scans : scans[s].status = FAILED /\ scans[s].error_msg = ScannerFailed

\* C9: every PROCESSED row belongs to a SHA for which a scanner invocation
\* has exited successfully.
C9_ProcessedWasScanned ==
    \A s \in DOMAIN scans : scans[s].status = PROCESSED => s \in scanOk

W_C9_SomeProcessed ==
    \E s \in DOMAIN scans :
        scans[s].status = PROCESSED /\ scanCount[s] = 2 /\ s \in scanOk

\* C10: a job whose try_claim_commit failed on a store error is not reported
\* by the worker as successfully handled.
CE_C10_ClaimErrorNotSuccess ==
    \A w \in Workers : claim[w] = "error" => ret[w] # "True"

\* the metadata of row `new` against row `old` after a write with incoming
\* metadata m: a null incoming field keeps the old value, a non-null one
\* replaces it
MetaCoalesced(old, new, m) ==
    /\ new.repo_name = (IF m.repo_name = NULL THEN old.repo_name ELSE m.repo_name)
    /\ new.project_key = (IF m.project_key = NULL THEN old.project_key ELSE m.project_key)
    /\ new.repo_url = (IF m.repo_url = NULL THEN old.repo_url ELSE m.repo_url)

MetaOf(r) == Meta(r.repo_name, r.project_key, r.repo_url)

\* C11: mark_processed, mark_failed and the resume branch of try_claim_commit
\* overwrite a metadata field of the row only when the incoming value is not
\* null, and leave it as recorded when the incoming value is null; a call
\* whose statement raises leaves all three fields as recorded.
C11_MetadataCoalesce ==
    [][((IsCall("mark_processed") \/ IsCall("mark_failed")
            \/ (IsCall("try_claim_commit") /\ last'.outcome \in {"resumed-pending", "error"}))
         /\ last'.sha \in DOMAIN scans)
        => /\ last'.sha \in DOMAIN scans'
           /\ IF last'.err
              THEN MetaOf(scans'[last'.sha]) = MetaOf(scans[last'.sha])
              ELSE MetaCoalesced(scans[last'.sha], scans'[last'.sha], last'.meta)]_vars

\* a mark_processed with a null project_key and non-null repo_name on a row
\* that had both recorded
W_C11_NullKeptNonNullWritten ==
    /\ last.op = "mark_processed"
    /\ ~last.err
    /\ last.meta = Meta("b", NULL, "b_u")
    /\ last.sha \in DOMAIN scans
    /\ scans[last.sha].status = PROCESSED
    /\ scans[last.sha].repo_name = "b"
    /\ scans[last.sha].project_key = "a_k"
    /\ scans[last.sha].repo_url = "b_u"

\* ------------------------------------------------------------------ claims on the webapp
\* jobs of the job store that belong to upload u
JobsOfUpload(u) == {j \in DOMAIN jobs : jobs[j].upload_id = u}

\* the worker is between setting the status of job j and the end of the
\* block that mirrors it into the upload
Mirroring(j) ==
    jw.job_id = j /\ jw.pc \in {"mirror_running", "mirror_completed", "except", "mirror_error"}

\* the transitions of an upload's status
StatusPath ==
    {<<"uploaded", "queued">>, <<"queued", "running">>,
     <<"running", "completed">>, <<"running", "error">>}

\* C12: within one process run, every change of the persisted status of an
\* upload is uploaded->queued, queued->running, running->completed or
\* running->error.  Stated for the runs in which no statement on the uploads
\* table has raised, and with the re-queueing of an errored upload
\* (error->queued, which _can_start_upload permits) admitted: both only
\* narrow the claim.
CE_C12_StatusPath ==
    [][(web = "up" /\ web' = "up" /\ ~webFault')
        => \A u \in DOMAIN uploads_db :
              /\ u \in DOMAIN uploads_db'
              /\ \/ uploads_db'[u].status = uploads_db[u].status
                 \/ <<uploads_db[u].status, uploads_db'[u].status>>
                        \in StatusPath \cup {<<"error", "queued">>}]_vars

\* the step is a scan request deciding on upload u: scan_upload after its
\* load, or one iteration of scan_all_pending
DecidesOn(u) ==
    /\ web' = "up"
    /\ \/ h.pc = "refill" /\ h.req = "scan" /\ h.upload_id = u /\ h'.pc # "refill"
       \/ h.pc = "loop" /\ h.rest # <<>> /\ Head(h.rest) = u /\ h' # h

\* the step predicate of C13 below
NoReenqueueStep ==
    /\ \A u \in DOMAIN uploads_db :
          (DecidesOn(u) /\ uploads_db[u].status \in {"queued", "running", "completed"})
             => /\ job_queue' = job_queue
                /\ jobs' = jobs
                /\ uploads_db' = uploads_db
    /\ \A u \in Uploads :
          Cardinality({j \in DOMAIN jobs' : /\ jobs'[j].upload_id = u
                                            /\ jobs'[j].status \in {"queued", "running"}}) <= 1

\* C13: a scan request for an upload whose persisted status is queued,
\* running or completed appends nothing to the job queue, creates no job and
\* changes no upload row; and no upload has two jobs queued or running at once.
CE_C13_NoReenqueue == [][NoReenqueueStep]_vars

\* C13 holds in the runs in which no statement on the uploads table has raised.
C13_NoReenqueueUnlessStoreRaised == [][~webFault' => NoReenqueueStep]_vars

\* C14: once the latest job of an upload is running, completed or error (and
\* the worker has left the block that mirrors that status), the persisted
\* status of the upload equals the job's status.  Stated for the runs in
\* which no statement on the uploads table has raised, which only narrows
\* the claim.
CE_C14_UploadMirrorsJob ==
    ~webFault =>
        \A j \in DOMAIN jobs :
            (/\ jobs[j].status \in {"running", "completed", "error"}
             /\ ~Mirroring(j)
             /\ \A k \in JobsOfUpload(jobs[j].upload_id) : k <= j)
            => /\ jobs[j].upload_id \in DOMAIN uploads_db
               /\ uploads_db[jobs[j].upload_id].status = jobs[j].status

\* C15: the worker takes the jobs in the order start_scan appended them (job
\* n is the n-th appended: the job taken precedes every job left in the
\* queue), and at most one job is running, i.e. inside process_csv, at a time.
C15_FifoOneAtATime ==
    [][/\ (jw.pc = "wait" /\ jw'.pc # "wait")
            => /\ jw'.job_id = job_queue[1][1]
               /\ \A i \in 1..Len(job_queue') : jw'.job_id < job_queue'[i][1]
       /\ Cardinality({j \in DOMAIN jobs' : jobs'[j].status = "running"}) <= 1]_vars

\* the worker has taken job 1 while job 2, appended after it, waits
W_C15_FirstTakenSecondWaits ==
    /\ jw.job_id = 1
    /\ jw.pc = "process"
    /\ jobs[1].status = "running"
    /\ Len(job_queue) = 1
    /\ job_queue[1][1] = 2
    /\ jobs[2].status = "queued"

\* C16: every upload whose persisted status is running names a job of the
\* job store whose status is running (the worker being outside the block
\* that mirrors the end of that job).  Stated for the runs in which no
\* statement on the uploads table has raised, which only narrows the claim.
CE_C16_RunningHasJob ==
    (web = "up" /\ ~webFault) =>
        \A u \in DOMAIN uploads_db :
            (uploads_db[u].status = "running" /\ ~Mirroring(uploads_db[u].job_id))
            => /\ uploads_db[u].job_id \in DOMAIN jobs
               /\ jobs[uploads_db[u].job_id].status = "running"

\* the step predicate of C17 below
StartupDemotesStep ==
    /\ (web = "down" /\ web' = "up")
         => /\ DOMAIN uploads_db' = DOMAIN uploads_db
            /\ \A u \in DOMAIN uploads_db :
                  uploads_db'[u] = IF uploads_db[u].status \in {"queued", "running"}
                                   THEN UploadRow("uploaded", NoJobId, NULL)
                                   ELSE uploads_db[u]
    /\ (web' = "up" /\ jobs' = EmptyJobs)
         => \A u \in DOMAIN uploads_db' :
               uploads_db'[u].status \notin {"queued", "running"}

\* C17: start-up turns every queued or running upload row into uploaded with
\* job_id and error cleared and leaves the other rows as they were; and
\* after start-up, as long as no scan has been requested, no upload is
\* queued or running.
CE_C17_StartupDemotes == [][StartupDemotesStep]_vars

\* C17 holds in the runs in which no statement on the uploads table has raised.
C17_StartupDemotesUnlessStoreRaised == [][~webFault' => StartupDemotesStep]_vars

\* ---- claims on the worker's exception handling, skipped rows, workspaces

\* worker w is about to leave a job in which prepare_workspace or
\* checkout_commit raised: the except clause runs mark_failed(sha, str(e))
WorkerRaised(w) == pc[w] = "mark" /\ fail[w] \in PrepareErrors \cup CheckoutErrors

\* the step in which w's job returns False after that exception, and in which
\* the UPDATE of mark_failed did not raise
ReturnsAfterRaise(w) ==
    /\ WorkerRaised(w)
    /\ ret'[w] = "False"
    /\ scans' = MarkFailed(scans, JobSha(w), fail[w], JobMeta(JobRow(w)), time, FALSE)

\* the row of w's SHA is FAILED with the exception text
RecordedFailed(store, w, text) ==
    /\ JobSha(w) \in DOMAIN store
    /\ store[JobSha(w)].status = FAILED
    /\ store[JobSha(w)].error_msg = text

\* C18: when prepare_workspace or checkout_commit raises inside a worker, the
\* exception is caught: the job returns, the run goes on, and the row of the
\* job's SHA is FAILED with the exception text.  Stated for the jobs whose
\* UPDATE statement did not raise.
CE_C18_ExceptionRecorded ==
    [][\A w \in Workers :
          ReturnsAfterRaise(w) =>
              /\ phase' = "running"
              /\ RecordedFailed(scans', w, fail[w])]_vars

\* C18 holds for the rows whose commit_sha cell is not empty: the exception is
\* recorded, the run goes on, and the rows not yet taken can still be taken.
C18_ExceptionRecordedForShaRows ==
    [][\A w \in Workers :
          (ReturnsAfterRaise(w) /\ JobSha(w) \in SHAs) =>
              /\ phase' = "running"
              /\ RecordedFailed(scans', w, fail[w])
              /\ <<submitted', taken', csv'>> = <<submitted, taken, csv>>
              /\ pc'[w] = "idle"]_vars

\* a job that raised in checkout_commit has returned False and left its row
\* FAILED with the exception text
W_C18_RaisedAndRecorded ==
    \E w \in Workers :
        /\ phase = "running" /\ run = 1 /\ crashes = 0
        /\ pc[w] = "idle" /\ ret[w] = "False" /\ job[w] # 0
        /\ JobSha(w) \in DOMAIN scans
        /\ scans[JobSha(w)].status = FAILED
        /\ scans[JobSha(w)].error_msg \in CheckoutErrors

\* a cell that is absent (no such column) or empty
Missing(x) == x \in {NULL, NaN}

\* the row has neither repo_url nor gh_project_name, or has no commit SHA
RowLacks(row) ==
    \/ Missing(row.repo_url) /\ Missing(row.gh_project_name)
    \/ Missing(row.git_trigger_commit) /\ Missing(row.commit_sha)

\* worker w takes a step of the job of a row that lacks a repository or a SHA
StepsOnLackingRow(w) ==
    /\ phase' = "running"
    /\ job'[w] \in 1..Len(csv)
    /\ RowLacks(csv[job'[w]])
    /\ <<pc'[w], job'[w], ret'[w]>> # <<pc[w], job[w], ret[w]>>

\* C19: processing a row that has neither repo_url nor gh_project_name, or
\* that has no commit SHA, changes nothing in the scans table.
CE_C19_LackingRowNoMutation ==
    [][\A w \in Workers :
          StepsOnLackingRow(w) => <<scans', null_rows'>> = <<scans, null_rows>>]_vars

\* C19 holds for the rows whose columns are absent from the CSV: the row is
\* skipped, the job returns False, and the table is as it was.
C19_AbsentColumnRowSkipped ==
    [][\A w \in Workers :
          (StepsOnLackingRow(w) /\ ~RowValid(csv[job'[w]])) =>
              /\ <<scans', null_rows'>> = <<scans, null_rows>>
              /\ ret'[w] = "False"
              /\ pc'[w] = "idle"]_vars

\* a row without repository columns has been skipped
W_C19_RowSkipped ==
    \E w \in Workers :
        /\ phase = "running"
        /\ job[w] # 0 /\ ~RowValid(JobRow(w))
        /\ pc[w] = "idle" /\ ret[w] = "False"

ShaOfRow(i) == RowSha(csv[i])

\* worker w holds a workspace before and after the step, and another worker
\* v, whose job is for another SHA, takes the step
HoldsWhileOtherSteps(w, v) ==
    /\ w # v
    /\ workspace_path[w] # NULL
    /\ workspace_path'[w] = workspace_path[w]
    /\ pc'[v] # pc[v]
    /\ job'[v] # 0
    /\ ShaOfRow(job'[v]) # ShaOfRow(job[w])

\* C21: while a job is between prepare_workspace and its cleanup, no other
\* job removes its workspace temp/<project_key>, recreates it or takes it as
\* its own workspace.  Stated for two jobs of different SHAs.
CE_C21_WorkspaceIsolation ==
    [][\A w \in Workers, v \in Workers :
          HoldsWhileOtherSteps(w, v) =>
              /\ workspace_path[w] \in temp => workspace_path[w] \in temp'
              /\ workspace_path'[v] # workspace_path[w]]_vars

\* C21 holds for the jobs whose project keys differ.
C21_IsolatedWhenKeysDiffer ==
    [][\A w \in Workers, v \in Workers :
          (HoldsWhileOtherSteps(w, v)
              /\ ProjectKey(csv[job'[v]]) # ProjectKey(csv[job[w]])) =>
              /\ workspace_path[w] \in temp => workspace_path[w] \in temp'
              /\ workspace_path'[v] # workspace_path[w]]_vars

\* C23: a job of a repository whose clone failed in the pre-warm of the
\* job's batch never gets to mark its SHA PROCESSED.
CE_C23_FailedCloneJobFails ==
    \A w \in Workers :
        (pc[w] = "mark" /\ job[w] \in clone_failed) => fail[w] # "ok"

\* C23 holds in this form: a failed clone does not abort the batch (its rows
\* are all submitted), and a job that finds no mirror when it reaches
\* prepare_workspace raises and goes on to mark_failed.
C23_BatchGoesOnJobWithoutMirrorFails ==
    [][/\ (phase = "running" /\ submitted' # submitted) =>
             /\ submitted' = BatchEnd(submitted)
             /\ phase' = "running"
       /\ \A w \in Workers :
             (pc[w] = "prepare" /\ pc'[w] # pc[w] /\ phase' = "running"
                 /\ RepoName(RowUrl(JobRow(w))) \notin mirror) =>
                 /\ pc'[w] = "mark"
                 /\ fail'[w] = "Master repo not prepared"]_vars

\* a row whose clone failed has been recorded FAILED while the row of the
\* other repository of its batch has been scanned
W_C23_OtherRepoDispatched ==
    \E i \in clone_failed, j \in 1..Len(csv) :
        /\ j \notin clone_failed
        /\ run = 1 /\ crashes = 0 /\ batch_size = 2
        /\ ShaOfRow(i) \in DOMAIN scans
        /\ scans[ShaOfRow(i)].status = FAILED
        /\ scans[ShaOfRow(i)].error_msg = "Master repo not prepared"
        /\ ShaOfRow(j) \in scanOk

\* thread t has a VCS-writing operation in progress on repository r
Writing(t, r) == lk[t].pc \in WritingPositions /\ lk[t].repo = r

\* C22: no two VCS-writing operations (clone, fetch, worktree add/remove,
\* checkout, clean, patch apply, workspace deletion) of different threads are
\* in progress at the same time for the same repository.
CE_C22_WritesSerialised ==
    \A r \in RepoNames, t1 \in LockThreads, t2 \in LockThreads :
        (Writing(t1, r) /\ Writing(t2, r)) => t1 = t2

\* C22 holds for the operations made inside `with repo_lock`: clone, fetch,
\* worktree add and worktree remove.
C22_LockedOperationsSerialised ==
    \A r \in RepoNames, t1 \in LockThreads, t2 \in LockThreads :
        (/\ lk[t1].pc \in LockedPositions /\ lk[t1].repo = r
         /\ lk[t2].pc \in LockedPositions /\ lk[t2].repo = r) => t1 = t2

\* ------------------------------------------------------------------ C24
AcquireReturns(t) == rq[t].pc = "scan" /\ rq'[t].pc = "send"
AcquireFails(t) == rq[t].pc = "raise_all" /\ rq'[t].pc = "done"
AcquireSteps(t) == rq[t].pc \in {"acquire", "scan", "raise_all"} /\ rq'[t] # rq[t]
AllCooling == \A k \in DOMAIN cooldowns : cooldowns[k] > clock

\* C24: acquire returns a token only if that token's cooldown has expired;
\* when every token is cooling down it fails with AllTokensRateLimited whose
\* value is the minimum of the tokens' cooldown times; and no step of acquire
\* changes the cooldown map.
C24_AcquireHonoursCooldowns ==
    [][\A t \in Workers :
          /\ AcquireReturns(t) => cooldowns[rq'[t].token] <= clock
          /\ (rq[t].pc = "scan" /\ rq'[t] # rq[t] /\ AllCooling)
                 => rq'[t].pc = "raise_all"
          /\ AcquireFails(t) =>
                 /\ rq'[t].result.kind = "AllTokensRateLimited"
                 /\ \A k \in DOMAIN cooldowns : rq'[t].result.until <= cooldowns[k]
                 /\ \E k \in DOMAIN cooldowns : rq'[t].result.until = cooldowns[k]
          /\ AcquireSteps(t) => cooldowns' = cooldowns]_vars

\* a call has failed with the earlier of two different cooldown times
W_C24_EarliestOfTwo ==
    \E t \in Workers :
        /\ rq[t].pc = "done"
        /\ rq[t].result = AllTokensRateLimited(LateReset)
        /\ \E k \in DOMAIN cooldowns : cooldowns[k] > LateReset

\* ------------------------------------------------------------------ C25
CallEnds(t) == rq[t].pc \in {"send", "raise_all"} /\ rq'[t].pc = "done"

\* the call of t ends in this step, every answer it got was a 403 with zero
\* remaining quota, every such answer given so far carried the reset T, and
\* every token of the pool is cooling until T
AllAnswered403(t, T) ==
    /\ CallEnds(t)
    /\ rq'[t].attempts >= 1
    /\ rq'[t].only_late
    /\ ~other_resets'
    /\ \A k \in DOMAIN cooldowns : cooldowns'[k] = T

\* t is answered 403 with zero remaining quota and reset T
Answered403(t, T) ==
    /\ rq[t].pc = "send"
    /\ rq'[t].attempts = rq[t].attempts + 1
    /\ rq[t].only_late /\ rq'[t].only_late

FailsRateLimited(t, T) ==
    /\ rq'[t].result = AllTokensRateLimited(T)
    /\ rq'[t].failed_with = AllTokensRateLimited(T)

Requested(r, now) == IF r # NoReset THEN r ELSE now + DEFAULT_COOLDOWN

\* this step is the handling of a 403 by thread t: the token in use is put
\* in cooldown until until(r, now) for a reset r, no other cooldown changes,
\* the attempt is counted, and the loop goes on unless it was the last one
Handles403(t, until(_, _)) ==
    /\ rq[t].pc = "send"
    /\ \E r \in Resets :
          cooldowns' = [cooldowns EXCEPT ![rq[t].token] = until(r, clock)]
    /\ rq'[t].attempts = rq[t].attempts + 1
    /\ \/ rq'[t].pc = "acquire"
       \/ rq'[t].attempts = 3 /\ rq'[t].result = GitHubAPIError500

FlooredCooldown(r, now) == Max2(Requested(r, now), now + 1)

NoneCooling(t) == \A k \in DOMAIN cooldowns : cooldowns[k] <= rq[t].now

\* C27: the cursor moves only in the locked part of acquire, one thread at a
\* time; with no token cooling down that step returns the token at the
\* cursor and advances the cursor by one, cyclically, so that successive
\* acquires of any threads return the tokens in list order; and the cursor
\* stays within the bounds of the token list.
C27_RoundRobinRotation ==
    [][/\ cursor' # cursor =>
              \E t \in Workers : rq[t].pc = "scan" /\ rq'[t].pc # "scan"
       /\ \A t \in Workers :
              (rq[t].pc = "scan" /\ rq'[t] # rq[t] /\ NoneCooling(t)) =>
                  /\ rq'[t].pc = "send"
                  /\ rq'[t].token = tokens[cursor + 1]
                  /\ cursor' = (cursor + 1) % Len(tokens)
       /\ Len(tokens) > 0 => cursor' \in 0..(Len(tokens) - 1)]_vars

\* two threads hold the two tokens of a pool, taken in list order, and the
\* cursor is back at the first token
W_C27_WrappedAround ==
    /\ Len(tokens) = 2
    /\ cursor = 0
    /\ rq[1].pc = "send" /\ rq[1].token = 1 /\ rq[1].attempts = 0
    /\ rq[2].pc = "send" /\ rq[2].token = 2 /\ rq[2].attempts = 0

\* ------------------------------------------------------------------ C28
ExceededLimit == replay.error.reason = "Exceeded parent traversal limit"
PlanBuiltOrFailed == replay.pc \in {"apply", "done"}

\* C28: build_replay_plan terminates; it never makes more than max_depth
\* get_commit calls; after max_depth single-parent commits without a locally
\* present parent the next iteration fails with MissingForkCommitError
\* "Exceeded parent traversal limit" for the target; and that failure
\* happens only then, so a chain that reaches a local commit within
\* max_depth commits is not rejected for depth.
C28_TraversalBounded ==
    /\ <>PlanBuiltOrFailed
    /\ [](replay.gets <= replay.max_depth)
    /\ [](ExceededLimit =>
             /\ replay.error = MissingForkCommitError(replay.target_sha,
                                   "Exceeded parent traversal limit")
             /\ replay.plan = NoPlan
             /\ replay.gets = replay.max_depth
             /\ Len(replay.missing_commits) = replay.max_depth
             /\ \A i \in 1..Len(replay.missing_commits) :
                    /\ replay.missing_commits[i] \notin commit_exists
                    /\ Len(payloads[replay.missing_commits[i]]) = 1
                    /\ payloads[replay.missing_commits[i]][1] \notin commit_exists)
    /\ [][(replay.pc = "loop" /\ replay.gets = replay.max_depth /\ replay' # replay)
              => (replay'.pc = "done" /\ ExceededLimit')]_vars

\* the limit was hit after more than one commit
W_C28_LimitHit ==
    /\ replay.pc = "done"
    /\ ExceededLimit
    /\ replay.max_depth >= 2
    /\ replay.gets = replay.max_depth

\* ------------------------------------------------------------------ C29
ZeroOrMultipleParents(c) ==
    MissingForkCommitError(c, "Cannot replay commit with zero or multiple parents")

\* C29: once get_commit has reported zero parents or two or more parents
\* for a commit of the replay path, the call has failed with
\* MissingForkCommitError naming that commit, with the reason "zero or
\* multiple parents", and no plan is ever returned.
C29_MergeOrRootRefused ==
    \A c \in DOMAIN payloads :
        Len(payloads[c]) # 1 =>
            /\ replay.pc = "done"
            /\ replay.error = ZeroOrMultipleParents(c)
            /\ replay.plan = NoPlan
            /\ replay.applied = <<>>

\* an ancestor of the target turned out to be a merge commit
W_C29_MergeAncestor ==
    /\ replay.error.kind = "MissingForkCommitError"
    /\ replay.error.commit_sha # replay.target_sha
    /\ replay.error.commit_sha \in DOMAIN payloads
    /\ Len(payloads[replay.error.commit_sha]) = 2

\* ------------------------------------------------------------------ C30
\* C30: a returned plan has a base_sha that exists locally and, as commits,
\* the locally missing commits of the single-parent chain from base_sha to
\* the target, oldest first: the parent of the first is base_sha, the parent
\* of each next one is the one before it, and the last is the target;
\* apply_replay_plan applies them in that order.
C30_PlanIsMissingChain ==
    replay.plan # NoPlan =>
        LET commits == replay.plan.commits
            n == Len(commits)
        IN  /\ n >= 1
            /\ replay.plan.base_sha \in commit_exists
            /\ \A i \in 1..n : commits[i] \notin commit_exists
            /\ payloads[commits[1]] = <<replay.plan.base_sha>>
            /\ \A i \in 2..n : payloads[commits[i]] = <<commits[i - 1]>>
            /\ commits[n] = replay.target_sha
            /\ Len(replay.applied) <= n
            /\ replay.applied = SubSeq(commits, 1, Len(replay.applied))

\* target D with D -> C -> B -> A and A local: B, C, D were applied in turn
W_C30_ThreeReplayed ==
    /\ replay.pc = "done"
    /\ replay.error = NoError
    /\ Len(replay.plan.commits) = 3
    /\ replay.applied = replay.plan.commits

Polls == sonar.pc = "poll" /\ sonar'.pc # "poll"
WaitReturned == sonar.pc \in {"after_wait", "returned", "done"}

\* the wait does not outlast its polls: it polls at most once per elapsed
\* unit of the timeout, never at or after the deadline, and successive polls
\* start WAIT_FOR_CE_POLL plus the time of a poll apart
PollsInTime ==
    /\ [](sonar.polls <= sonar.WAIT_FOR_CE_TIMEOUT)
    /\ [](sonar.polls > 0 => sonar.polled_at < sonar.deadline)
    /\ [][(Polls /\ sonar.polls > 0) =>
              \E latency \in Latencies :
                  sonar'.polled_at = sonar.polled_at + latency + sonar.WAIT_FOR_CE_POLL]_vars
    /\ [][(sonar.pc = "loop" /\ sonar'.pc # "loop") =>
              (sonar'.stop = "timeout" <=> sonar.now >= sonar.deadline)]_vars

\* C32 as stated: the wait ends only when there is no task left, when the
\* current task is SUCCESS, FAILED or CANCELED, or at the timeout; after any
\* other poll (a task pending or in progress, a poll that failed) it polls on.
CE_C32_StopsOnlyWhenDoneOrTimeout ==
    [][Polls =>
          (sonar'.pc = "after_wait" <=>
               sonar'.answer \in {"idle", "SUCCESS", "FAILED", "CANCELED"})]_vars

\* C32: wait_for_compute_engine always returns; it stops as soon as there is
\* no current task and no queue, or the current task is SUCCESS, FAILED or
\* CANCELED, or a poll is answered 401, or the timeout has elapsed (and at
\* once when the URL or the token is missing); after any other poll it sleeps
\* WAIT_FOR_CE_POLL and polls again, and it never polls at or after the
\* deadline.
C32_WaitReturns ==
    /\ (sonar.pc = "wait") ~> WaitReturned
    /\ PollsInTime
    /\ [][Polls =>
              /\ sonar'.pc \in {"after_wait", "sleep"}
              /\ sonar'.pc = "after_wait" <=>
                     sonar'.answer \in {"idle", "SUCCESS", "FAILED", "CANCELED", "401"}
              /\ sonar'.pc = "after_wait" => sonar'.stop = sonar'.answer]_vars
    /\ [][(sonar.pc = "wait" /\ sonar'.pc # "wait") =>
              (sonar'.pc = "after_wait" <=> ~sonar.configured)]_vars

\* the wait timed out after polls that failed
W_C32_TimedOutAfterErrors ==
    /\ sonar.pc = "after_wait"
    /\ sonar.stop = "timeout"
    /\ sonar.polls >= 2
    /\ sonar.answer = "error"

\* ------------------------------------------------------------------ C33
\* no measure carries a value: every scalar value and every period value is
\* missing or the empty string
NothingMeasured(measures) ==
    \A i \in 1..Len(measures) :
        /\ measures[i].value \in {NULL, ""}
        /\ \A p \in 1..Len(measures[i].periods) : measures[i].periods[p] \in {NULL, ""}

\* C33: a project for which the server returns no measure with a non-empty
\* value (an empty list, or only empty scalar and period values) is pending:
\* skipped_pending is incremented and no CSV row, no JSONL line and no
\* processed.txt entry is written for it.
C33_PendingIsSkipped ==
    [][(exporter.pc = "result" /\ exporter'.pc = "collected"
            /\ ~exporter.raised /\ NothingMeasured(exporter.measures)) =>
          /\ exporter'.skipped_pending = exporter.skipped_pending + 1
          /\ exporter'.csv = exporter.csv
          /\ exporter'.jsonl = exporter.jsonl
          /\ exporter'.done = exporter.done
          /\ exporter'.success = exporter.success]_vars

\* the second project had two measures, none with a value, and was skipped
\* after the first was exported
W_C33_SkippedAfterExport ==
    /\ exporter.pc = "collected"
    /\ exporter.skipped = <<2>>
    /\ exporter.skipped_pending = 1
    /\ exporter.jsonl_on
    /\ Len(exporter.csv) = 1 /\ Len(exporter.jsonl) = 1 /\ exporter.done = <<"a_1">>

\* ------------------------------------------------------------------ C34
\* C34: every CSV row the exporter writes has at least one non-empty metric
\* column (the pending test and the row builder agree for every measures
\* list).
CE_C34_RowHasAValue ==
    \A r \in 1..Len(exporter.csv) :
        \E i \in 1..Len(ALL_METRIC_KEYS) : exporter.csv[r][ALL_METRIC_KEYS[i]] # ""

\* ------------------------------------------------------------------ C35
\* the worktree holds the target: the target is checked out and cleaned, or the
\* base of the plan is checked out and cleaned and on it the patches of the
\* whole chain from the base to the target are applied, parent before child
ChainToTarget(base_sha, commits) ==
    /\ commits # <<>>
    /\ commits[Len(commits)] = replay.target_sha
    /\ \A i \in 1..Len(commits) :
          payloads[commits[i]] = <<IF i = 1 THEN base_sha ELSE commits[i - 1]>>
WorkspaceAtTarget ==
    /\ checkout.cleaned
    /\ \/ checkout.head = replay.target_sha /\ replay.applied = <<>>
       \/ /\ checkout.head = replay.plan.base_sha
          /\ checkout.head \in commit_exists
          /\ replay.applied = replay.plan.commits
          /\ ChainToTarget(checkout.head, replay.applied)

\* C35: checkout_commit follows a fixed decision order: a commit that exists
\* locally is force-checked-out and cleaned without a forge call; otherwise,
\* only with a forge client and a repo_slug, a replay plan is built, its base
\* checked out and cleaned and the patches applied in plan order; in every
\* other case, and when a step fails, it raises, so it never returns normally
\* with the worktree at another commit than the target.
C35_CheckoutDecisionOrder ==
    /\ checkout.outcome = "returned" => WorkspaceAtTarget
    /\ replay.target_sha \in commit_exists =>
          /\ replay.gets = 0 /\ replay.pc \notin {"loop", "patch", "apply"}
          /\ checkout.outcome = "returned" => checkout.head = replay.target_sha
    /\ replay.pc # "idle" =>
          checkout.github /\ checkout.repo_slug
    /\ replay.applied # <<>> =>
          /\ checkout.head = replay.plan.base_sha /\ checkout.cleaned
          /\ \A i \in 1..Len(replay.applied) : replay.applied[i] = replay.plan.commits[i]
    /\ checkout.pc = "done" =>
          /\ checkout.outcome \in {"returned", "raised"}
          /\ checkout.outcome = "raised" <=> checkout.error # NoError
    /\ (checkout.pc = "done" /\ replay.target_sha \notin commit_exists
           /\ ~(checkout.github /\ checkout.repo_slug)) =>
          checkout.error = NotReplayable(replay.target_sha)

\* a missing commit was rebuilt from two patches on a local ancestor
W_C35_ReplayedOnBase ==
    /\ checkout.outcome = "returned"
    /\ replay.target_sha \notin commit_exists
    /\ Len(replay.applied) = 2
    /\ checkout.head = replay.plan.base_sha

\* ------------------------------------------------------------------ C36
\* C36: terminal states are absorbing under the scheduler: once a row is
\* PROCESSED or FAILED, no step of any worker changes its status afterwards,
\* also when two workers resumed the same PENDING SHA.
CE_C36_TerminalAbsorbing ==
    [][\A s \in DOMAIN scans :
          scans[s].status \in Terminal =>
              s \in DOMAIN scans' /\ scans'[s].status = scans[s].status]_vars

\* ------------------------------------------------------------------ C37
\* C37: when process_csv returns without a process crash, every SHA a worker
\* of that run claimed is PROCESSED or FAILED: no claimed row is left PENDING.
CE_C37_NoPendingAfterRun ==
    (phase = "idle" /\ run >= 1 /\ crashes = 0) =>
        \A s \in DOMAIN scans : scans[s].status \in Terminal

\* ------------------------------------------------------------------ C38
\* C38: when two threads call try_claim_commit concurrently for the same SHA
\* that has no row, exactly one row for that SHA exists afterwards and at most
\* one of the two calls reports a claim.
CE_C38_OneClaimOfTwo ==
    \A w1 \in Workers, w2 \in Workers :
        (w1 # w2 /\ claim[w1] # NULL /\ claim[w2] # NULL) =>
            /\ ~(ClaimReturn(claim[w1]) /\ ClaimReturn(claim[w2]))
            /\ (claim[w1] = "claimed-new" \/ claim[w2] = "claimed-new") =>
                   JobSha(w1) \in DOMAIN scans

\* ------------------------------------------------------------------ C39
\* C39: an upload whose persisted status is completed carries no error
\* message; a re-scan that completes clears the error of an earlier scan.
CE_C39_CompletedHasNoError ==
    \A u \in DOMAIN uploads_db :
        uploads_db[u].status = "completed" => uploads_db[u].error_msg = NULL

\* ------------------------------------------------------------------ C40
\* the rank of a job status on the path queued, running, completed | error
JobRank(status) ==
    IF status = "queued" THEN 0 ELSE IF status = "running" THEN 1 ELSE 2

\* C40: every job start_scan put on the queue is eventually dequeued and
\* reaches completed or error, given that process_csv returns and the worker
\* thread is scheduled (a job lost with the process is not counted); the
\* status of a job never moves backward and never leaves completed or error.
CE_C40_JobsFinish ==
    /\ \A j \in 1..MaxJobs :
          (j \in DOMAIN jobs /\ jobs[j].status = "queued")
              ~> (j \notin DOMAIN jobs \/ jobs[j].status \in {"completed", "error"})
    /\ [][\A j \in DOMAIN jobs \cap DOMAIN jobs' :
              /\ JobRank(jobs'[j].status) >= JobRank(jobs[j].status)
              /\ jobs[j].status \in {"completed", "error"} =>
                     jobs'[j].status = jobs[j].status]_vars
====
